---- MODULE Spec2Model ----
(***************************************************************************)
(* Model of the replication core of the Smart File Backup System:          *)
(*   - OperationQueue   (src/core/operation_queue.py)                      *)
(*   - TaskRunner       (src/core/task_manager.py)                         *)
(*   - SyncProcessor    (src/core/sync_processor.py)                       *)
(*   - ConflictHandler  (src/core/conflict_handler.py)                     *)
(*                                                                         *)
(* Threads are modelled by program counters.  Paths are records            *)
(* [base, rel]: base is "S" (the task's source directory) or a target      *)
(* directory, rel the path below it.                                       *)
(***************************************************************************)
EXTENDS Integers, Sequences, FiniteSets, TLC

VARIABLES
    \* ---- OperationQueue ------------------------------------------------
    ops,              \* every FileOperation ever created, in creation order
    queue,            \* self._queue (ids of ops)
    pending_ops,      \* self._pending_ops (ids of ops)
    current_op,       \* self._current_op (0 = None)
    completed_count,  \* self._completed_count
    failed_count,     \* self._failed_count
    is_paused,        \* self._is_paused
    wpc,              \* position of the worker thread in _worker
    wop,              \* the worker's local variable op (0 = none)
    wres,             \* the worker's local variable success
    exec_log,         \* ids of the ops handed to the executor, in order
    \* ---- threads that call into the queue ------------------------------
    thr,              \* per thread: pc, snapshot taken, ops still to add
    \* ---- TaskRunner ----------------------------------------------------
    task,             \* the BackupTask (configuration)
    status,           \* self._status
    file_event_batch, \* self._file_event_batch
    batch_timer,      \* the timer self._batch_timer refers to
    loose_timers,     \* started timers that _batch_timer no longer refers to
    paused_batch,     \* self._paused_batch
    is_safety_paused, \* self._is_safety_paused
    alerts,           \* safety alerts handed to the event callback
    nev,              \* number of file events delivered so far
    \* ---- file system, state store, SyncProcessor -----------------------
    fs,               \* per directory ("S", targets): name -> file or NoFile
    state,            \* state store of the task: name -> hash (0 = no record)
    fsync,            \* progress of a full_sync call
    is_syncing,       \* TaskRunner._is_syncing
    processor,        \* TaskRunner._processor: its filter (by "none": None)
    filtered,         \* the last path a filter was asked about, and the answer
    \* ---- DebouncedEventHandler, Scheduler ------------------------------
    deb,              \* a DebouncedEventHandler, its timers and its deliveries
    sched,            \* the Scheduler, the schedule entries and their runs
    \* ---- watchers ------------------------------------------------------
    monitors          \* the source watchers of the runner that are running

qvars == <<ops, queue, pending_ops, current_op, completed_count, failed_count,
           is_paused, wpc, wop, wres, exec_log>>

rvars == <<task, status, file_event_batch, batch_timer, loose_timers,
           paused_batch, is_safety_paused, alerts, nev>>

evars == <<deb, sched, monitors>>

pvars == <<processor, filtered, deb, sched, monitors>>

fvars == <<fs, state, fsync, is_syncing, processor, filtered, deb, sched,
           monitors>>

svars == <<fs, state, fsync, is_syncing, processor, filtered, deb, sched>>

vars == <<ops, queue, pending_ops, current_op, completed_count, failed_count,
          is_paused, wpc, wop, wres, exec_log, thr, task, status,
          file_event_batch, batch_timer, loose_timers, paused_batch,
          is_safety_paused, alerts, nev, fs, state, fsync, is_syncing,
          processor, filtered, deb, sched, monitors>>

\* ---------------------------------------------------------------- bounds
\* Most operations ever created in one run.
MaxOps == 3
\* Longest batch a caller hands to add_batch_operations.
MaxBatch == 2

\* ----------------------------------------------------------------- paths
\* A relative path: the name a user gave the file and a tag: 0 for the file
\* itself, k >= 1 for the copy "<name>_v<k>" of generate_versioned_filename,
\* -1 for the copy "<name>.conflict.<timestamp>" of _sync_file_with_hash.
Name(n) == <<n, 0>>

NoPath == [base |-> "", rel |-> Name("")]

Path(b, r) == [base |-> b, rel |-> r]

\* ------------------------------------------------------- OperationQueue
\* FileOperation as created by add_operation; task/batch/idx/eid record who
\* asked for it (task_id, the add_batch_operations call, the position in that
\* call's list, the file event it was translated from).
NewOp(d) ==
    [op_type |-> d.op_type, source |-> d.source, target |-> d.target,
     task_id |-> d.task_id, status |-> "pending",
     batch |-> d.batch, idx |-> d.idx, eid |-> d.eid]

\* queue.Queue.get of a FIFO queue, as a mutant: takes the newest element.
QueueGetNewest(q) == Len(q)

\* queue.Queue.get: the position of the element the worker takes.
QueueGet(q) == 1

RemoveAt(s, i) == SubSeq(s, 1, i - 1) \o SubSeq(s, i + 1, Len(s))

RECURSIVE RemoveFirst(_, _)
\* list.remove(x): drops the first occurrence.
RemoveFirst(s, x) ==
    IF s = <<>> THEN <<>>
    ELSE IF Head(s) = x THEN Tail(s)
    ELSE <<Head(s)>> \o RemoveFirst(Tail(s), x)

InSeq(s, x) == \E i \in 1..Len(s) : s[i] = x

\* add_operation: creates the FileOperation and, under the lock, appends it
\* to _pending_ops and puts it on the queue.
add_operation(d) ==
    /\ Len(ops) < MaxOps
    /\ ops' = Append(ops, NewOp(d))
    /\ pending_ops' = Append(pending_ops, Len(ops) + 1)
    /\ queue' = Append(queue, Len(ops) + 1)

\* One iteration of add_batch_operations' loop in thread t.
AddOperation(t) ==
    /\ thr[t].pc = "adding"
    /\ thr[t].adding # <<>>
    /\ add_operation(Head(thr[t].adding))
    /\ thr' = [thr EXCEPT ![t].adding = Tail(@),
                          ![t].pc = IF Tail(thr[t].adding) = <<>>
                                    THEN thr[t].then ELSE "adding"]
    /\ UNCHANGED <<current_op, completed_count, failed_count, is_paused,
                   wpc, wop, wres, exec_log, rvars, fvars>>

pause ==
    /\ ~is_paused
    /\ is_paused' = TRUE
    /\ UNCHANGED <<ops, queue, pending_ops, current_op, completed_count,
                   failed_count, wpc, wop, wres, exec_log, thr, rvars, fvars>>

resume ==
    /\ is_paused
    /\ is_paused' = FALSE
    /\ UNCHANGED <<ops, queue, pending_ops, current_op, completed_count,
                   failed_count, wpc, wop, wres, exec_log, thr, rvars, fvars>>

\* clear: drains the queue, marks the pending entries of _pending_ops
\* cancelled and empties the list.
clear ==
    /\ pending_ops # <<>>
    /\ queue' = <<>>
    /\ ops' = [i \in 1..Len(ops) |->
                 IF InSeq(pending_ops, i) /\ ops[i].status = "pending"
                 THEN [ops[i] EXCEPT !.status = "cancelled"]
                 ELSE ops[i]]
    /\ pending_ops' = <<>>
    /\ UNCHANGED <<current_op, completed_count, failed_count, is_paused,
                   wpc, wop, wres, exec_log, thr, rvars, fvars>>

\* get_status()["pending"]
StatusPending ==
    Cardinality({i \in 1..Len(ops) :
                   InSeq(pending_ops, i) /\ ops[i].status = "pending"})

\* _worker, top of the loop: the pause check.
WorkerCheckPause ==
    /\ wpc = "check"
    /\ ~is_paused
    /\ wpc' = "get"
    /\ UNCHANGED <<ops, queue, pending_ops, current_op, completed_count,
                   failed_count, is_paused, wop, wres, exec_log, thr, rvars, fvars>>

\* _worker: op = self._queue.get(timeout=0.5); an empty queue restarts the loop.
WorkerGet ==
    /\ wpc = "get"
    /\ IF queue = <<>>
       THEN /\ wpc' = "check"
            /\ UNCHANGED <<queue, wop>>
       ELSE /\ wop' = queue[QueueGet(queue)]
            /\ queue' = RemoveAt(queue, QueueGet(queue))
            /\ wpc' = "mark"
    /\ UNCHANGED <<ops, pending_ops, current_op, completed_count,
                   failed_count, is_paused, wres, exec_log, thr, rvars, fvars>>

\* _worker: self._current_op = op; op.status = RUNNING.
WorkerMarkRunning ==
    /\ wpc = "mark"
    /\ current_op' = wop
    /\ ops' = [ops EXCEPT ![wop].status = "running"]
    /\ wpc' = "exec"
    /\ UNCHANGED <<queue, pending_ops, completed_count, failed_count,
                   is_paused, wop, wres, exec_log, thr, rvars, fvars>>

\* The status the worker records, as a mutant: the op is left running.
RecordedStatusStuck(success) == "running"

\* The status the worker records for the executor's result.
RecordedStatus(success) == IF success THEN "completed" ELSE "failed"

\* _worker: op.status = COMPLETED or FAILED, set outside the lock.
WorkerRecord ==
    /\ wpc = "record"
    /\ ops' = [ops EXCEPT ![wop].status = RecordedStatus(wres)]
    /\ wpc' = "count"
    /\ UNCHANGED <<queue, pending_ops, current_op, completed_count,
                   failed_count, is_paused, wop, wres, exec_log, thr, rvars,
                   fvars>>

\* _worker: under the lock, _completed_count += 1 or _failed_count += 1.
WorkerCount ==
    /\ wpc = "count"
    /\ completed_count' = IF wres THEN completed_count + 1 ELSE completed_count
    /\ failed_count' = IF wres THEN failed_count ELSE failed_count + 1
    /\ wpc' = "remove"
    /\ UNCHANGED <<ops, queue, pending_ops, current_op, is_paused, wop, wres,
                   exec_log, thr, rvars, fvars>>

\* _worker: removes the op from _pending_ops and clears _current_op.
WorkerRemove ==
    /\ wpc = "remove"
    /\ pending_ops' = IF InSeq(pending_ops, wop)
                      THEN RemoveFirst(pending_ops, wop) ELSE pending_ops
    /\ current_op' = 0
    /\ wop' = 0
    /\ wpc' = "check"
    /\ UNCHANGED <<ops, queue, completed_count, failed_count, is_paused,
                   wres, exec_log, thr, rvars, fvars>>

\* _execute_operation with an executor installed by set_executor that has
\* no state of its own: it returns (True, ...) or (False, ...), or raises,
\* which _execute_operation turns into (False, str(e)).
WorkerExecute ==
    /\ wpc = "exec"
    /\ exec_log' = Append(exec_log, wop)
    /\ \E success \in BOOLEAN : wres' = success
    /\ wpc' = "record"
    /\ UNCHANGED <<ops, queue, pending_ops, current_op, completed_count,
                   failed_count, is_paused, wop, thr, rvars, fvars>>

QueueInit ==
    /\ ops = <<>>
    /\ queue = <<>>
    /\ pending_ops = <<>>
    /\ current_op = 0
    /\ completed_count = 0
    /\ failed_count = 0
    /\ is_paused = FALSE
    /\ wpc = "check"
    /\ wop = 0
    /\ wres = FALSE
    /\ exec_log = <<>>

\* ------------------------------------------------------------ TaskRunner
\* A thread: where it is, the batch it holds, the dicts add_batch_operations
\* still has to add, where it continues after them, its argument.
NoArg == [delete_orphans |-> FALSE, by |-> ""]

IdleThread ==
    [pc |-> "idle", snap |-> <<>>, adding |-> <<>>, then |-> "idle",
     arg |-> NoArg]

\* The dict add_batch_operations receives for one operation.
OpData(ty, src, tgt, tid, b, i, e) ==
    [op_type |-> ty, source |-> src, target |-> tgt, task_id |-> tid,
     batch |-> b, idx |-> i, eid |-> e]

\* Most file events the watchers deliver in one run.
MaxEvents == 2
\* BackupTask.safety_threshold of the task under study.
SafetyThreshold == 2
\* Files below the directory a directory event refers to.
DirFiles == 2
\* _trigger_safety_alert_update previews the first five held items.
PreviewLimit == 5

TheTaskId == "task1"

\* A FileEvent as the watchers build it; walk is what os.walk counts below
\* src_path when the event is counted.
FileEvent(ty, src, dst, isdir, w) ==
    [kind |-> "FileEvent", event_type |-> ty, src_path |-> src,
     dest_path |-> dst, is_directory |-> isdir, walk |-> w]

\* A str value (a directory path) in a place where a FileEvent is expected.
StrValue(b) ==
    [kind |-> "str", event_type |-> "", src_path |-> Path(b, Name("")),
     dest_path |-> NoPath, is_directory |-> FALSE, walk |-> 0]

NoneValue ==
    [kind |-> "None", event_type |-> "", src_path |-> NoPath,
     dest_path |-> NoPath, is_directory |-> FALSE, walk |-> 0]

\* The events the source watcher delivers.
SourceEvents ==
    {FileEvent("modified", Path("S", Name("a")), NoPath, FALSE, 0),
     FileEvent("deleted", Path("S", Name("a")), NoPath, FALSE, 0),
     FileEvent("created", Path("S", Name("d")), NoPath, TRUE, DirFiles),
     \* the directory d, holding DirFiles files, renamed to e: src_path is
     \* no directory any more
     FileEvent("moved", Path("S", Name("d")), Path("S", Name("e")), TRUE, 0 - 1)}

\* The events the watcher of target directory tp delivers.
TargetEvents(tp) ==
    {FileEvent("modified", Path(tp, Name("a")), NoPath, FALSE, 0)}

\* The tuple _add_to_batch appends; eid numbers the deliveries.
BatchItem(ev, rev, tb, e) ==
    [event |-> ev, is_reverse |-> rev, target_base |-> tb, eid |-> e]

\* _add_to_batch without its new timer, as a mutant.
add_to_batch_no_timer(ev, rev, tb) ==
    /\ nev < MaxEvents
    /\ nev' = nev + 1
    /\ file_event_batch' = Append(file_event_batch, BatchItem(ev, rev, tb, nev + 1))
    /\ batch_timer' = "none"

\* _add_to_batch, under _batch_lock: cancels the timer _batch_timer refers
\* to (no effect on one that has fired), appends, starts a new timer.
add_to_batch(ev, rev, tb) ==
    /\ nev < MaxEvents
    /\ nev' = nev + 1
    /\ file_event_batch' = Append(file_event_batch, BatchItem(ev, rev, tb, nev + 1))
    /\ batch_timer' = "armed"

\* _on_file_event(event)
on_file_event(event) ==
    IF status # "running"
    THEN /\ nev < MaxEvents
         /\ nev' = nev + 1
         /\ UNCHANGED <<file_event_batch, batch_timer>>
    ELSE add_to_batch(event, FALSE, NoneValue)

\* The source watcher calls its callback, _on_file_event.
SourceWatcherCallback ==
    /\ \E ev \in SourceEvents : on_file_event(ev)
    /\ UNCHANGED <<qvars, fvars, thr, task, status, loose_timers, paused_batch,
                   is_safety_paused, alerts>>

\* _on_target_file_event(event, target_base).
on_target_file_event(event, target_base) ==
    IF status # "running"
    THEN /\ nev < MaxEvents
         /\ nev' = nev + 1
         /\ UNCHANGED <<file_event_batch, batch_timer>>
    ELSE add_to_batch(event, TRUE, target_base)

\* The callback start() gives the watcher of target tp:
\*   lambda evt, tp=target_path: self._on_target_file_event(tp, evt)
TargetWatcherCallback ==
    /\ task.sync_mode = "two_way"
    /\ \E i \in 1..Len(task.target_paths) :
         \E evt \in TargetEvents(task.target_paths[i]) :
            on_target_file_event(StrValue(task.target_paths[i]), evt)
    /\ UNCHANGED <<qvars, fvars, thr, task, status, loose_timers, paused_batch,
                   is_safety_paused, alerts>>

\* The threads a fired Timer runs _process_batch_events in.
TimerThreads == {"timer1", "timer2"}

\* A Timer started by _add_to_batch expires: _process_batch_events starts in
\* a thread of its own.  The timer is the one _batch_timer refers to, or one
\* it no longer refers to.
TimerFire(t) ==
    /\ thr[t].pc = "idle"
    /\ \A u \in TimerThreads \cap DOMAIN thr :
          thr[u].pc = "idle" => (t = "timer1" \/ u # "timer1")
    /\ \/ /\ batch_timer = "armed"
          /\ batch_timer' = "fired"
          /\ UNCHANGED loose_timers
       \/ /\ loose_timers > 0
          /\ loose_timers' = loose_timers - 1
          /\ UNCHANGED batch_timer
    /\ thr' = [thr EXCEPT ![t].pc = "fired"]
    /\ UNCHANGED <<qvars, fvars, task, status, file_event_batch, paused_batch,
                   is_safety_paused, alerts, nev>>

\* _process_batch_events, the block under _batch_lock: returns on an empty
\* buffer, else takes the snapshot, clears the buffer and drops the
\* reference to the timer.
FlushSnapshot(t) ==
    /\ thr[t].pc = "fired"
    /\ IF file_event_batch = <<>>
       THEN /\ thr' = [thr EXCEPT ![t] = IdleThread]
            /\ UNCHANGED <<file_event_batch, batch_timer, loose_timers>>
       ELSE /\ thr' = [thr EXCEPT ![t].pc = "gate", ![t].snap = file_event_batch]
            /\ file_event_batch' = <<>>
            /\ batch_timer' = "none"
            /\ loose_timers' = IF batch_timer = "armed"
                               THEN loose_timers + 1 ELSE loose_timers
    /\ UNCHANGED <<qvars, fvars, task, status, paused_batch, is_safety_paused,
                   alerts, nev>>

\* evt.is_directory raises AttributeError when evt is not a FileEvent.
HasAttributes(v) == v.kind = "FileEvent"

\* What one event adds to total_changes in _process_batch_events: a
\* directory (walk >= 0 says src_path still is one) counts max(file_count, 1).
EventChanges(evt) ==
    IF evt.is_directory /\ evt.walk >= 0
    THEN (IF evt.walk > 1 THEN evt.walk ELSE 1)
    ELSE 1

ItemChanges(item) == EventChanges(item.event)

RECURSIVE TotalChanges(_)
TotalChanges(batch) ==
    IF batch = <<>> THEN 0
    ELSE ItemChanges(Head(batch)) + TotalChanges(Tail(batch))

\* get_relative_path(file_path, base_path)
get_relative_path(p, b) == IF p.base = b THEN p.rel ELSE Name("..")

\* execute_batch taking every item for a reverse one, as a mutant.
ItemOpsToSource(item, b) ==
    IF item.event.kind # "FileEvent" THEN <<>>
    ELSE <<OpData("copy", item.event.src_path,
                  Path("S", item.event.src_path.rel), TheTaskId, b, 0,
                  item.eid)>>

\* The dicts execute_batch builds for one item of the batch; b names the
\* call, e the event.
ItemOps(item, b) ==
    IF item.event.kind # "FileEvent" THEN <<>>
    ELSE LET event == item.event
             op_type == IF event.event_type = "deleted" THEN "delete" ELSE "copy"
         IN IF item.is_reverse
            THEN LET rel == get_relative_path(event.src_path,
                                              item.target_base.src_path.base)
                 IN IF op_type = "delete"
                    THEN <<OpData(op_type, Path("S", rel), NoPath, TheTaskId,
                                  b, 0, item.eid)>>
                    ELSE <<OpData(op_type, event.src_path, Path("S", rel),
                                  TheTaskId, b, 0, item.eid)>>
            ELSE LET rel == get_relative_path(event.src_path, "S")
                 IN [i \in 1..Len(task.target_paths) |->
                       IF op_type = "delete"
                       THEN OpData(op_type, Path(task.target_paths[i], rel),
                                   NoPath, TheTaskId, b, 0, item.eid)
                       ELSE OpData(op_type, event.src_path,
                                   Path(task.target_paths[i], rel),
                                   TheTaskId, b, 0, item.eid)]

RECURSIVE BatchOps(_, _)
BatchOps(batch, b) ==
    IF batch = <<>> THEN <<>>
    ELSE ItemOps(Head(batch), b) \o BatchOps(Tail(batch), b)

\* execute_batch: the list it hands to add_batch_operations.
execute_batch(batch, b) ==
    LET l == BatchOps(batch, b)
    IN [i \in 1..Len(l) |-> [l[i] EXCEPT !.idx = i]]

\* The dict _trigger_safety_alert_update hands to the event callback.
SafetyAlert(count, initial) ==
    [action |-> "safety_alert", alert_type |-> "massive_change",
     accumulated_count |-> count, batch_total_count |-> count,
     is_initial_sync |-> initial]

\* _process_batch_events after the snapshot: the check of _is_safety_paused,
\* the count of the changes and the comparison with the threshold.  The
\* count raises on an item whose first component is not a FileEvent, which
\* ends the thread.
FlushGate(t) ==
    /\ thr[t].pc = "gate"
    /\ IF is_safety_paused
       THEN /\ thr' = [thr EXCEPT ![t].pc = "paused_extend"]
            /\ UNCHANGED is_safety_paused
       ELSE IF \E i \in 1..Len(thr[t].snap) : ~HasAttributes(thr[t].snap[i].event)
       THEN /\ thr' = [thr EXCEPT ![t] = IdleThread]
            /\ UNCHANGED is_safety_paused
       ELSE IF TotalChanges(thr[t].snap) >= task.safety_threshold
       THEN /\ is_safety_paused' = TRUE
            /\ thr' = [thr EXCEPT ![t].pc = "trip_extend"]
       ELSE /\ UNCHANGED is_safety_paused
            /\ LET l == execute_batch(thr[t].snap, <<t, Len(ops)>>)
               IN thr' = [thr EXCEPT ![t].snap = <<>>, ![t].adding = l,
                                     ![t].pc = IF l = <<>> THEN "idle" ELSE "adding"]
    /\ UNCHANGED <<qvars, fvars, task, status, file_event_batch, batch_timer,
                   loose_timers, paused_batch, alerts, nev>>

\* self._paused_batch.extend(batch), in the branch taken while paused and
\* in the branch that trips the gate.
FlushExtend(t) ==
    /\ thr[t].pc \in {"paused_extend", "trip_extend"}
    /\ paused_batch' = paused_batch \o thr[t].snap
    /\ thr' = [thr EXCEPT ![t].snap = <<>>,
                          ![t].pc = IF thr[t].pc = "paused_extend"
                                    THEN "paused_alert" ELSE "trip_alert"]
    /\ UNCHANGED <<qvars, fvars, task, status, file_event_batch, batch_timer,
                   loose_timers, is_safety_paused, alerts, nev>>

\* _trigger_safety_alert_update completes: the preview reads e[0].src_path
\* of the first items, batch[0][0] needs a first item.
AlertCompletes ==
    /\ paused_batch # <<>>
    /\ \A i \in 1..Len(paused_batch) :
          i <= PreviewLimit => HasAttributes(paused_batch[i].event)

\* _trigger_safety_alert_update, with an event callback installed.
FlushAlert(t) ==
    /\ thr[t].pc \in {"paused_alert", "trip_alert"}
    /\ alerts' = IF AlertCompletes
                 THEN Append(alerts, SafetyAlert(Len(paused_batch), FALSE))
                 ELSE alerts
    /\ thr' = [thr EXCEPT ![t] = IdleThread]
    /\ UNCHANGED <<qvars, fvars, task, status, file_event_batch, batch_timer,
                   loose_timers, paused_batch, is_safety_paused, nev>>

\* confirm_safety_alert up to batch_to_run = list(self._paused_batch).
ConfirmCopy ==
    /\ thr["ui"].pc = "idle"
    /\ is_safety_paused
    /\ thr' = [thr EXCEPT !["ui"].pc = "confirm", !["ui"].snap = paused_batch]
    /\ UNCHANGED <<qvars, fvars, rvars>>

\* confirm_safety_alert from self._paused_batch.clear() on.
ConfirmRun ==
    /\ thr["ui"].pc = "confirm"
    /\ paused_batch' = <<>>
    /\ is_safety_paused' = FALSE
    /\ LET l == execute_batch(thr["ui"].snap, <<"ui", Len(ops)>>)
       IN thr' = [thr EXCEPT !["ui"].snap = <<>>, !["ui"].adding = l,
                             !["ui"].pc = IF l = <<>> THEN "idle" ELSE "adding"]
    /\ UNCHANGED <<qvars, fvars, task, status, file_event_batch, batch_timer,
                   loose_timers, alerts, nev>>

reset_safety_pause ==
    /\ thr["ui"].pc = "idle"
    /\ is_safety_paused \/ paused_batch # <<>>
    /\ is_safety_paused' = FALSE
    /\ paused_batch' = <<>>
    /\ UNCHANGED <<qvars, fvars, thr, task, status, file_event_batch, batch_timer,
                   loose_timers, alerts, nev>>

\* pause() as a mutant: the status test is left out.
pause_status_untested(s) == "paused"

\* The status pause() leaves: paused if the runner was running.
pause_status(s) == IF s = "running" THEN "paused" ELSE s

\* The status resume() leaves: running if the runner was paused.
resume_status(s) == IF s = "paused" THEN "running" ELSE s

\* TaskRunner.pause
runner_pause ==
    /\ status' = pause_status(status)
    /\ UNCHANGED <<qvars, fvars, thr, task, file_event_batch, batch_timer,
                   loose_timers, paused_batch, is_safety_paused, alerts, nev>>

\* TaskRunner.resume
runner_resume ==
    /\ status' = resume_status(status)
    /\ UNCHANGED <<qvars, fvars, thr, task, file_event_batch, batch_timer,
                   loose_timers, paused_batch, is_safety_paused, alerts, nev>>

\* The BackupTask of the runner under study.
Task(mode, targets) ==
    [sync_mode |-> mode, target_paths |-> targets,
     safety_threshold |-> SafetyThreshold,
     conflict_strategy |-> "newest_wins", compare_method |-> "mtime",
     task_id |-> "", delete_orphans |-> FALSE,
     initial_sync_delete |-> FALSE, disable_delete |-> FALSE,
     source_path |-> <<"S">>, include_patterns |-> <<>>,
     exclude_patterns |-> <<>>]

RunnerInit ==
    /\ status = "running"
    /\ file_event_batch = <<>>
    /\ batch_timer = "none"
    /\ loose_timers = 0
    /\ paused_batch = <<>>
    /\ is_safety_paused = FALSE
    /\ alerts = <<>>
    /\ nev = 0

\* ------------------------------------------- file system and state store
\* The files the user names.
FileNames == {"a", "b"}
\* Highest version number of a "<name>_v<k>" copy.
MaxVersions == 2

Names == {<<n, k>> : n \in FileNames, k \in (0 - 1)..MaxVersions}

\* A file is its bytes c and its modification time m.
NoFile == [c |-> 0, m |-> 0]

File(c, m) == [c |-> c, m |-> m]

EmptyDir == [n \in Names |-> NoFile]

\* get_file_size: the bytes 1 and 2 have the same length, 3 is longer.
get_file_size(f) == (f.c + 1) \div 2

\* get_file_hash: the md5 of the bytes; None (0) stands for no hash.
get_file_hash(f) == f.c

get_file_mtime(f) == f.m

\* os.path.exists
Exists(f, p) == p.rel \in Names /\ f[p.base][p.rel] # NoFile

\* scan_directory: the names of the files below directory b.
scan_directory(f, b) == {n \in Names : f[b][n] # NoFile}

\* safe_copy_file: shutil.copy2 copies the bytes and the modification time.
safe_copy_file(f, src, dst) ==
    [f EXCEPT ![dst.base][dst.rel] = f[src.base][src.rel]]

\* safe_delete_file
safe_delete_file(f, p) == [f EXCEPT ![p.base][p.rel] = NoFile]

\* shutil.move of an existing file.
move_file(f, src, dst) ==
    [f EXCEPT ![dst.base][dst.rel] = f[src.base][src.rel],
              ![src.base][src.rel] = NoFile]

\* generate_versioned_filename: "<name>_v<k>" for the smallest k >= 1 that
\* does not exist; a name outside Names when the model has no name for it.
generate_versioned_filename(f, p) ==
    LET free == {k \in 1..MaxVersions : f[p.base][<<p.rel[1], k>>] = NoFile}
    IN IF p.rel[2] # 0 \/ free = {}
       THEN Path(p.base, <<p.rel[1], MaxVersions + 1>>)
       ELSE Path(p.base, <<p.rel[1], CHOOSE k \in free : \A j \in free : k <= j>>)

\* "<base>.conflict.<timestamp><ext>" of _sync_file_with_hash.
conflict_file(p) ==
    IF p.rel[2] # 0 THEN Path(p.base, <<p.rel[1], MaxVersions + 1>>)
    ELSE Path(p.base, <<p.rel[1], 0 - 1>>)

\* ------------------------------------------------------- ConflictHandler
\* check_conflict on the files at the two paths.
check_conflict(sf, tf) ==
    IF tf = NoFile \/ sf = NoFile THEN FALSE
    ELSE ~(get_file_mtime(sf) = get_file_mtime(tf)
             /\ get_file_size(sf) = get_file_size(tf))

\* resolve, no user callback installed: the action and the resolved path.
resolve(f, strategy, sp, tp) ==
    LET sf == f[sp.base][sp.rel]
        tf == f[tp.base][tp.rel]
    IN CASE strategy = "ask_user" -> [action |-> "skip", path |-> NoPath]
         [] strategy = "skip" -> [action |-> "skip", path |-> NoPath]
         [] strategy = "source_wins" -> [action |-> "copy", path |-> tp]
         [] strategy = "target_wins" -> [action |-> "skip", path |-> NoPath]
         [] strategy = "newest_wins" ->
               IF get_file_mtime(sf) > get_file_mtime(tf)
               THEN [action |-> "copy", path |-> tp]
               ELSE [action |-> "skip", path |-> NoPath]
         [] strategy = "keep_both" ->
               [action |-> "keep_both", path |-> generate_versioned_filename(f, tp)]
         [] OTHER -> [action |-> "skip", path |-> NoPath]

\* --------------------------------------------------------- SyncProcessor
\* What one per-file call does: the SyncResult (success, action, source_path,
\* target_path) and its effects: the file at target_path is first moved to
\* move_to (when not NoPath), source_path is copied to target_path (action
\* copy) or target_path is deleted (action delete), and with upd the state
\* record of the relative path is set to the hash of source_path.
SyncResult(ok, act, sp, tp, mv, u) ==
    [success |-> ok, action |-> act, source_path |-> sp, target_path |-> tp,
     move_to |-> mv, upd |-> u]

\* _sync_file_with_hash(source_file, target_path)
sync_file_with_hash(f, st, n, tb) ==
    LET sp == Path("S", n)
        tp == Path(tb, n)
        src_hash == get_file_hash(f["S"][n])
        last_hash == st[n]
        target_exists == Exists(f, tp)
        tgt_hash == IF target_exists THEN get_file_hash(f[tb][n]) ELSE 0
        src_changed == src_hash # last_hash
        tgt_changed == ~target_exists \/ tgt_hash # last_hash
    IN IF ~src_changed /\ ~tgt_changed
       THEN SyncResult(TRUE, "skip", sp, tp, NoPath, FALSE)
       ELSE IF src_changed /\ ~tgt_changed
       THEN SyncResult(TRUE, "copy", sp, tp, NoPath, TRUE)
       ELSE IF ~src_changed /\ tgt_changed
       THEN (IF task.sync_mode = "two_way"
             THEN SyncResult(TRUE, "skip", sp, tp, NoPath, FALSE)
             ELSE SyncResult(TRUE, "copy", sp, tp, NoPath, TRUE))
       ELSE IF src_hash = tgt_hash
       THEN SyncResult(TRUE, "skip", sp, tp, NoPath, TRUE)
       ELSE IF ~target_exists
       THEN SyncResult(FALSE, "error", sp, tp, NoPath, FALSE)
       ELSE SyncResult(TRUE, "copy", sp, tp, conflict_file(tp), TRUE)

\* _sync_file(source_file, target_path)
sync_file(f, st, n, tb) ==
    LET sp == Path("S", n)
        tp == Path(tb, n)
    IN IF task.compare_method = "hash" /\ task.task_id # ""
       THEN sync_file_with_hash(f, st, n, tb)
       ELSE IF ~Exists(f, tp)
       THEN SyncResult(TRUE, "copy", sp, tp, NoPath, FALSE)
       ELSE IF check_conflict(f["S"][n], f[tb][n])
       THEN LET r == resolve(f, task.conflict_strategy, sp, tp)
            IN IF r.action \in {"copy", "keep_both"}
               THEN SyncResult(TRUE, "copy", sp, r.path, NoPath, FALSE)
               ELSE SyncResult(TRUE, "skip", sp, tp, NoPath, FALSE)
       ELSE SyncResult(TRUE, "skip", sp, tp, NoPath, FALSE)

\* _sync_file_reverse_with_hash(target_file, target_base)
sync_file_reverse_with_hash(f, st, n, tb) ==
    LET tp == Path(tb, n)
        sp == Path("S", n)
        tgt_hash == get_file_hash(f[tb][n])
        last_hash == st[n]
        source_exists == Exists(f, sp)
        src_hash == IF source_exists THEN get_file_hash(f["S"][n]) ELSE 0
        tgt_changed == tgt_hash # last_hash
        src_changed == ~source_exists \/ src_hash # last_hash
    IN IF tgt_changed /\ ~src_changed
       THEN SyncResult(TRUE, "copy", tp, sp, NoPath, TRUE)
       ELSE SyncResult(TRUE, "skip", tp, sp, NoPath, FALSE)

\* _sync_file_reverse(target_file, target_base)
sync_file_reverse(f, st, n, tb) ==
    LET tp == Path(tb, n)
        sp == Path("S", n)
    IN IF task.compare_method = "hash" /\ task.task_id # ""
       THEN sync_file_reverse_with_hash(f, st, n, tb)
       ELSE IF ~Exists(f, sp)
       THEN SyncResult(TRUE, "copy", tp, sp, NoPath, FALSE)
       ELSE IF check_conflict(f[tb][n], f["S"][n])
       THEN LET r == resolve(f, task.conflict_strategy, tp, sp)
            IN IF r.action = "copy"
               THEN SyncResult(TRUE, "copy", tp, r.path, NoPath, FALSE)
               ELSE SyncResult(TRUE, "skip", tp, sp, NoPath, FALSE)
       ELSE SyncResult(TRUE, "skip", tp, sp, NoPath, FALSE)

\* The orphan branch of full_sync for one target file.
sync_orphan(source_rel_paths, n, tb) ==
    IF n \notin source_rel_paths
    THEN SyncResult(TRUE, "delete", NoPath, Path(tb, n), NoPath, FALSE)
    ELSE SyncResult(TRUE, "skip", NoPath, Path(tb, n), NoPath, FALSE)

\* The model has names for the files the call writes.
Nameable(r) ==
    /\ r.action = "copy" => r.target_path.rel \in Names
    /\ r.move_to # NoPath => r.move_to.rel \in Names

\* The file system after the call that returned r.
FsAfter(f, r) ==
    CASE r.action = "copy" ->
            safe_copy_file(IF r.move_to # NoPath
                           THEN move_file(f, r.target_path, r.move_to) ELSE f,
                           r.source_path, r.target_path)
      [] r.action = "delete" -> safe_delete_file(f, r.target_path)
      [] OTHER -> f

\* _update_state: the state store after the call that returned r.
StateAfter(f, st, r) ==
    IF r.upd
    THEN [st EXCEPT ![r.source_path.rel] =
                get_file_hash(f[r.source_path.base][r.source_path.rel])]
    ELSE st

\* Most full_sync calls in one run.
MaxSyncs == 2

\* The list results of a full_sync call by action, skips left out.
NoResults == [copy |-> 0, delete |-> 0, error |-> 0]

\* results.append(result)
Counted(results, r) ==
    IF r.action \in DOMAIN NoResults
    THEN [results EXCEPT ![r.action] = @ + 1] ELSE results

\* The orphan loop runs whatever the mode, as a mutant.
orphans_wanted_any_mode(delete_orphans, mode) == delete_orphans

\* The test before the orphan loop.
orphans_wanted(delete_orphans, mode) == delete_orphans /\ mode = "one_way"

\* results is the list of the call under way, last what the call before it
\* returned.
NoSync == [pc |-> "idle", ti |-> 0, todo |-> {}, source_files |-> {},
           delete_orphans |-> FALSE, runs |-> 0, results |-> NoResults,
           last |-> NoResults]

\* full_sync(delete_orphans) up to the scan of the source.
FullSyncStart ==
    /\ fsync.pc \in {"idle", "done"}
    /\ fsync.runs < MaxSyncs
    /\ fsync' = [pc |-> "forward", ti |-> 1,
                 todo |-> scan_directory(fs, "S"),
                 source_files |-> scan_directory(fs, "S"),
                 delete_orphans |-> task.delete_orphans,
                 runs |-> fsync.runs, results |-> NoResults,
                 last |-> fsync.results]
    /\ UNCHANGED <<qvars, thr, rvars, is_syncing, fs, state>>
    /\ UNCHANGED pvars

\* One _sync_file call of the thread pool.
FullSyncFile ==
    /\ fsync.pc = "forward"
    /\ \E n \in fsync.todo :
         LET r == sync_file(fs, state, n, task.target_paths[fsync.ti])
         IN /\ Nameable(r)
            /\ fs' = FsAfter(fs, r)
            /\ state' = StateAfter(fs, state, r)
            /\ fsync' = [fsync EXCEPT !.todo = @ \ {n},
                                      !.results = Counted(@, r)]
    /\ UNCHANGED <<qvars, thr, rvars, is_syncing>>
    /\ UNCHANGED pvars

\* One iteration of the orphan loop.
FullSyncOrphan ==
    /\ fsync.pc = "orphans"
    /\ \E n \in fsync.todo :
         LET r == sync_orphan(fsync.source_files, n, task.target_paths[fsync.ti])
         IN /\ fs' = FsAfter(fs, r)
            /\ fsync' = [fsync EXCEPT !.todo = @ \ {n},
                                      !.results = Counted(@, r)]
    /\ UNCHANGED <<qvars, thr, rvars, is_syncing, state>>
    /\ UNCHANGED pvars

\* One _sync_file_reverse call of the thread pool.
FullSyncReverseFile ==
    /\ fsync.pc = "reverse"
    /\ \E n \in fsync.todo :
         LET r == sync_file_reverse(fs, state, n, task.target_paths[fsync.ti])
         IN /\ Nameable(r)
            /\ fs' = FsAfter(fs, r)
            /\ state' = StateAfter(fs, state, r)
            /\ fsync' = [fsync EXCEPT !.todo = @ \ {n},
                                      !.results = Counted(@, r)]
    /\ UNCHANGED <<qvars, thr, rvars, is_syncing>>
    /\ UNCHANGED pvars

\* full_sync between its loops: after the forward pass of a target the
\* orphan loop (delete_orphans and one_way) or the reverse pass (two_way),
\* then the next target, then the return.
FullSyncAdvance ==
    /\ fsync.pc \in {"forward", "orphans", "reverse"}
    /\ fsync.todo = {}
    /\ LET tb == task.target_paths[fsync.ti]
       IN fsync' =
            IF fsync.pc = "forward"
                 /\ orphans_wanted(fsync.delete_orphans, task.sync_mode)
            THEN [fsync EXCEPT !.pc = "orphans", !.todo = scan_directory(fs, tb)]
            ELSE IF fsync.pc = "forward" /\ task.sync_mode = "two_way"
            THEN [fsync EXCEPT !.pc = "reverse", !.todo = scan_directory(fs, tb)]
            ELSE IF fsync.ti < Len(task.target_paths)
            THEN [fsync EXCEPT !.pc = "forward", !.ti = @ + 1,
                               !.todo = fsync.source_files]
            ELSE [fsync EXCEPT !.pc = "done", !.runs = @ + 1]
    /\ UNCHANGED <<qvars, thr, rvars, is_syncing, fs, state>>
    /\ UNCHANGED pvars

\* ------------------------------------------- DebouncedEventHandler
\* Most file-system events one handler receives in one run.
MaxArrivals == 3

\* The paths the watched events are about.
WatchedPaths == {"p", "q"}

\* Every arrival starts one threading.Timer; a timer is named by the number
\* of the arrival that started it, an event by the number of its arrival.
TimerIds == 1..MaxArrivals

\* __init__: nothing pending, no timer.  A timer is "none" (not created),
\* "waiting", "cancelled", "fired" (its wait is over and _process_events is
\* about to run), "calling" (in the callback loop) or "done".
IdleHandler ==
    [pending_events |-> [p \in WatchedPaths |-> 0],
     timer |-> 0,
     timers |-> [t \in TimerIds |-> "none"],
     events |-> [t \in TimerIds |-> {}],
     arrivals |-> 0,
     adding |-> FALSE,
     delivered |-> <<>>]

\* threading.Timer.cancel: stops a timer that is still waiting, and has no
\* effect on one whose wait is over.
cancel(timers, t) ==
    IF t = 0 THEN timers
    ELSE [timers EXCEPT ![t] = IF @ = "waiting" THEN "cancelled" ELSE @]

\* _add_event up to the release of the lock: the event replaces the one
\* pending for its path.
add_event(p) ==
    /\ ~deb.adding
    /\ deb.arrivals < MaxArrivals
    /\ deb' = [deb EXCEPT !.arrivals = @ + 1,
                          !.pending_events[p] = deb.arrivals + 1,
                          !.adding = TRUE]
    /\ UNCHANGED <<qvars, rvars, thr, fs, state, fsync, is_syncing,
                   processor, filtered, sched, monitors>>

\* _schedule_callback: cancel the timer _timer refers to, start a new one.
schedule_callback ==
    /\ deb.adding
    /\ deb' = [deb EXCEPT
                 !.timers = [cancel(deb.timers, deb.timer)
                               EXCEPT ![deb.arrivals] = "waiting"],
                 !.timer = deb.arrivals,
                 !.adding = FALSE]
    /\ UNCHANGED <<qvars, rvars, thr, fs, state, fsync, is_syncing,
                   processor, filtered, sched, monitors>>

\* debounce_seconds have passed for the timer t, which was not cancelled.
timer_expires(t) ==
    /\ deb.timers[t] = "waiting"
    /\ deb' = [deb EXCEPT !.timers[t] = "fired"]
    /\ UNCHANGED <<qvars, rvars, thr, fs, state, fsync, is_syncing,
                   processor, filtered, sched, monitors>>

\* _process_events under the lock: take the pending events, clear them.
process_events(t) ==
    /\ deb.timers[t] = "fired"
    /\ LET events == {[path |-> p, event |-> deb.pending_events[p]] :
                         p \in {q \in WatchedPaths : deb.pending_events[q] # 0}}
       IN deb' = [deb EXCEPT
                    !.pending_events = [p \in WatchedPaths |-> 0],
                    !.events[t] = events,
                    !.timers[t] = IF events = {} THEN "done" ELSE "calling"]
    /\ UNCHANGED <<qvars, rvars, thr, fs, state, fsync, is_syncing,
                   processor, filtered, sched, monitors>>

\* _process_events after the lock: one callback(event) of the loop.
deliver(t) ==
    /\ deb.timers[t] = "calling"
    /\ \E e \in deb.events[t] :
          deb' = [deb EXCEPT
                    !.delivered = Append(@, [path |-> e.path,
                                             event |-> e.event, by |-> t]),
                    !.events[t] = @ \ {e},
                    !.timers[t] = IF deb.events[t] = {e} THEN "done" ELSE @]
    /\ UNCHANGED <<qvars, rvars, thr, fs, state, fsync, is_syncing,
                   processor, filtered, sched, monitors>>

\* ---------------------------------------------------------- Scheduler
\* Most runs of one schedule entry in one run.
MaxRuns == 2

JobIds == {"j1", "j2"}

TaskIds == {"A", "B"}

ScheduleTypes == {"interval", "daily", "weekly", "once"}

\* The place of a job id that is not in _jobs.
NoJob == [task_id |-> "", schedule_type |-> "", enabled |-> FALSE]

\* __init__: no jobs, no callbacks, nothing registered with the schedule
\* library, the lock free.  remover is the thread inside remove_task_jobs.
IdleScheduler ==
    [jobs |-> [j \in JobIds |-> NoJob],
     callbacks |-> {},
     registered |-> {},
     lock |-> "",
     last_run |-> [j \in JobIds |-> 0],
     calls |-> [j \in JobIds |-> 0],
     remover |-> [pc |-> "idle", job_ids |-> {}]]

\* _configure_job: the schedule library gets an entry tagged job_id for the
\* types interval, daily and weekly; no branch handles another type.
configure_job(registered, job_id, schedule_type) ==
    IF schedule_type \in {"interval", "daily", "weekly"}
    THEN registered \cup {job_id}
    ELSE registered

\* add_job, for a job id not in use.
add_job(task_id, schedule_type, job_id) ==
    /\ sched.lock = ""
    /\ sched' = [sched EXCEPT
                   !.jobs[job_id] = [task_id |-> task_id,
                                     schedule_type |-> schedule_type,
                                     enabled |-> TRUE],
                   !.callbacks = @ \cup {job_id},
                   !.registered = configure_job(@, job_id, schedule_type)]
    /\ UNCHANGED <<qvars, rvars, thr, fs, state, fsync, is_syncing,
                   processor, filtered, deb, monitors>>

\* schedule.run_pending finds the entry tagged job_id due: job_wrapper.
job_wrapper(job_id) ==
    /\ job_id \in sched.registered
    /\ sched.last_run[job_id] < MaxRuns
    /\ sched' = [sched EXCEPT
                   !.last_run[job_id] = @ + 1,
                   !.calls[job_id] =
                       IF job_id \in sched.callbacks THEN @ + 1 ELSE @]
    /\ UNCHANGED <<qvars, rvars, thr, fs, state, fsync, is_syncing,
                   processor, filtered, deb, monitors>>

\* remove_job, called by a user of the scheduler ("caller") or by the loop
\* of remove_task_jobs ("remover"); either way it first takes _lock, a
\* threading.Lock, which is not reentrant.
remove_job(who, job_id) ==
    /\ sched.lock = ""
    /\ who = "remover" =>
          sched.remover.pc = "remove_job" /\ job_id \in sched.remover.job_ids
    /\ LET rest == sched.remover.job_ids \ {job_id}
           removed ==
               IF sched.jobs[job_id] = NoJob THEN sched
               ELSE [sched EXCEPT !.jobs[job_id] = NoJob,
                                  !.callbacks = @ \ {job_id},
                                  !.registered = @ \ {job_id}]
       IN sched' =
            IF who = "remover"
            THEN [removed EXCEPT
                    !.remover = [pc |-> IF rest = {} THEN "idle"
                                        ELSE "remove_job",
                                 job_ids |-> rest]]
            ELSE removed
    /\ UNCHANGED <<qvars, rvars, thr, fs, state, fsync, is_syncing,
                   processor, filtered, deb, monitors>>

\* remove_task_jobs up to its loop: take _lock and list the task's job ids.
\* With no such job the call returns; otherwise the loop calls remove_job
\* while the lock is held.
remove_task_jobs(task_id) ==
    /\ sched.lock = ""
    /\ sched.remover.pc = "idle"
    /\ LET job_ids == {j \in JobIds : sched.jobs[j] # NoJob
                                        /\ sched.jobs[j].task_id = task_id}
       IN sched' =
            IF job_ids = {} THEN sched
            ELSE [sched EXCEPT !.lock = "remover",
                               !.remover = [pc |-> "remove_job",
                                            job_ids |-> job_ids]]
    /\ UNCHANGED <<qvars, rvars, thr, fs, state, fsync, is_syncing,
                   processor, filtered, deb, monitors>>

\* enable_job
enable_job(job_id) ==
    /\ sched.lock = ""
    /\ sched.jobs[job_id] # NoJob
    /\ sched' = [sched EXCEPT !.jobs[job_id].enabled = TRUE]
    /\ UNCHANGED <<qvars, rvars, thr, fs, state, fsync, is_syncing,
                   processor, filtered, deb, monitors>>

\* disable_job
disable_job(job_id) ==
    /\ sched.lock = ""
    /\ sched.jobs[job_id] # NoJob
    /\ sched' = [sched EXCEPT !.jobs[job_id].enabled = FALSE]
    /\ UNCHANGED <<qvars, rvars, thr, fs, state, fsync, is_syncing,
                   processor, filtered, deb, monitors>>

\* No filter has been asked yet.
NotFiltered == [path |-> <<>>, by |-> "", accepted |-> FALSE]

\* Most source watchers of one runner left running without a reference.
MaxOrphans == 1

\* TaskRunner.__init__: self._monitor = None, no watcher runs.
NoMonitor == [current |-> FALSE, orphans |-> 0]

\* The runner before its processor is constructed.
NoProcessor ==
    /\ processor = [include_patterns |-> <<>>, exclude_patterns |-> <<>>,
                    by |-> "none"]
    /\ filtered = NotFiltered
    /\ deb = IdleHandler
    /\ monitors = NoMonitor
    /\ sched = IdleScheduler

\* No files, no state records, no full_sync under way.
FsIdle ==
    /\ fs = [b \in {"S", "T1", "T2"} |-> EmptyDir]
    /\ state = [n \in Names |-> 0]
    /\ fsync = NoSync
    /\ is_syncing = FALSE
    /\ NoProcessor

\* ------------------------------------- full sync through the queue
\* The directories of the task: the source and its targets.
Sides == {"S"} \cup {task.target_paths[i] : i \in 1..Len(task.target_paths)}

TargetDirs == Sides \ {"S"}

\* full_sync(delete_orphans, dry_run=True): the results of the per-file
\* logic for every source file and target, of the orphan scan (delete_orphans
\* and one_way) and of the reverse scan (two_way, deletes not disabled),
\* nothing executed.
dry_run_results(f, st, delete_orphans) ==
    {sync_file(f, st, n, tb) : n \in scan_directory(f, "S"), tb \in TargetDirs}
    \cup (IF delete_orphans /\ task.sync_mode = "one_way"
          THEN UNION {{sync_orphan(scan_directory(f, "S"), n, tb) :
                         n \in scan_directory(f, tb)} : tb \in TargetDirs}
          ELSE {})
    \cup (IF task.sync_mode = "two_way" /\ ~task.disable_delete
          THEN UNION {{sync_file_reverse(f, st, n, tb) :
                         n \in scan_directory(f, tb)} : tb \in TargetDirs}
          ELSE {})

RECURSIVE SetToSeq(_)
SetToSeq(S) ==
    IF S = {} THEN <<>>
    ELSE LET x == CHOOSE y \in S : TRUE
         IN <<x>> \o SetToSeq(S \ {x})

\* The plan dict for a result that changes something.
PlanOp(r, b, i) ==
    IF r.action = "delete"
    THEN OpData("delete", r.target_path, NoPath, TheTaskId, b, i, 0)
    ELSE OpData("copy", r.source_path, r.target_path, TheTaskId, b, i, 0)

\* scan_and_plan(delete_orphans): the operations of the results that copy
\* or delete.
scan_and_plan(f, st, delete_orphans, b) ==
    LET l == SetToSeq({r \in dry_run_results(f, st, delete_orphans) :
                          r.action \in {"copy", "delete"}})
    IN [i \in 1..Len(l) |-> PlanOp(l[i], b, i)]

RECURSIVE ApplyAll(_, _, _)
\* The file system and the state store after the calls that returned the
\* results in l, in that order.
ApplyAll(f, st, l) ==
    IF l = <<>> THEN [fs |-> f, state |-> st]
    ELSE ApplyAll(IF Nameable(Head(l)) THEN FsAfter(f, Head(l)) ELSE f,
                  StateAfter(f, st, Head(l)), Tail(l))

\* A dry run as a mutant: the results are carried out.
wet_run_effect(f, st, delete_orphans) ==
    ApplyAll(f, st, SetToSeq(dry_run_results(f, st, delete_orphans)))

\* full_sync(delete_orphans, dry_run=True): the file system and the state
\* store after the call.
dry_run_effect(f, st, delete_orphans) == [fs |-> f, state |-> st]

\* execute_op carries out every delete, as a mutant.
DeleteAlwaysAllowed == TRUE

\* Whether execute_op carries out a delete.
DeleteAllowed == ~task.disable_delete

\* execute_op(op_type, source, target): the result and the file system
\* after it.  A copy whose source has vanished and a delete that is disabled
\* or finds no file are skipped.
execute_op(f, op) ==
    IF op.op_type = "copy"
    THEN (IF Exists(f, op.source) /\ op.target.rel \in Names
          THEN [ok |-> TRUE, action |-> "copy",
                fs |-> safe_copy_file(f, op.source, op.target)]
          ELSE [ok |-> TRUE, action |-> "skip", fs |-> f])
    ELSE (IF DeleteAllowed /\ Exists(f, op.source)
          THEN [ok |-> TRUE, action |-> "delete",
                fs |-> safe_delete_file(f, op.source)]
          ELSE [ok |-> TRUE, action |-> "skip", fs |-> f])

\* check_sync_safety without its empty-source rule, as a mutant.
check_sync_safety_no_empty_source ==
    LET results == dry_run_results(fs, state, task.delete_orphans)
        total_changes ==
            Cardinality({r \in results : r.action \in {"copy", "delete", "move"}})
    IN IF total_changes >= task.safety_threshold
       THEN [safe |-> FALSE, warning_type |-> "massive_change",
             changes_count |-> total_changes]
       ELSE [safe |-> TRUE, warning_type |-> "none",
             changes_count |-> total_changes]

\* check_sync_safety
check_sync_safety ==
    LET results == dry_run_results(fs, state, task.delete_orphans)
        total_changes ==
            Cardinality({r \in results : r.action \in {"copy", "delete", "move"}})
        delete_count == Cardinality({r \in results : r.action = "delete"})
    IN IF /\ task.sync_mode = "one_way"
          /\ task.delete_orphans
          /\ scan_directory(fs, "S") = {}
          /\ delete_count > 0
       THEN [safe |-> FALSE, warning_type |-> "empty_source",
             changes_count |-> total_changes]
       ELSE IF total_changes >= task.safety_threshold
       THEN [safe |-> FALSE, warning_type |-> "massive_change",
             changes_count |-> total_changes]
       ELSE [safe |-> TRUE, warning_type |-> "none",
             changes_count |-> total_changes]

\* The dict auto_sync hands to the event callback.
InitialSyncAlert(safety) ==
    [action |-> "safety_alert", alert_type |-> safety.warning_type,
     accumulated_count |-> safety.changes_count,
     batch_total_count |-> safety.changes_count, is_initial_sync |-> TRUE]

\* The source watchers after self._monitor was replaced by a new one:
\* the previous one, never stopped, keeps running beside it.
replace_monitor(started) ==
    [current |-> started,
     orphans |-> monitors.orphans + (IF monitors.current THEN 1 ELSE 0)]

\* start(): the watchers start, the status becomes running and the
\* auto_sync thread is started.
start ==
    /\ status # "running"
    /\ thr["auto"].pc = "idle"
    /\ Len(alerts) + fsync.runs < MaxSyncs
    /\ monitors.orphans < MaxOrphans
    /\ status' = "running"
    /\ monitors' = replace_monitor(TRUE)
    /\ thr' = [thr EXCEPT !["auto"].pc = "check", !["ui"].pc = "start_true"]
    /\ UNCHANGED <<qvars, svars, task, file_event_batch, batch_timer,
                   loose_timers, paused_batch, is_safety_paused, alerts, nev>>

\* start() when the source watcher does not start (FileMonitor.start
\* returns False, for example for a source path that does not exist):
\* return False.
start_no_monitor ==
    /\ status # "running"
    /\ monitors.orphans < MaxOrphans
    /\ monitors' = replace_monitor(FALSE)
    /\ thr' = [thr EXCEPT !["ui"].pc = "start_false"]
    /\ UNCHANGED <<qvars, svars, rvars>>

\* start() when a call inside its try block raises, before the new watcher
\* exists or after it was started: the except clause sets the status to
\* error and returns False.
start_raises ==
    /\ status # "running"
    /\ monitors.orphans < MaxOrphans
    /\ status' = "error"
    /\ monitors' \in {monitors, replace_monitor(TRUE)}
    /\ thr' = [thr EXCEPT !["ui"].pc = "start_false"]
    /\ UNCHANGED <<qvars, svars, task, file_event_batch, batch_timer,
                   loose_timers, paused_batch, is_safety_paused, alerts, nev>>

\* stop(): stops the watcher self._monitor names and the processor and
\* sets the status; the batch buffer and its timer are left as they are.
stop ==
    /\ status # "stopped"
    /\ status' = "stopped"
    /\ monitors' = [monitors EXCEPT !.current = FALSE]
    /\ UNCHANGED <<qvars, svars, thr, task, file_event_batch, batch_timer,
                   loose_timers, paused_batch, is_safety_paused, alerts, nev>>

\* An except clause that holds the sync back, as a mutant.
check_sync_safety_except_closed ==
    [safe |-> FALSE, warning_type |-> "massive_change", changes_count |-> 0]

\* check_sync_safety when its dry run raises: the except clause lets the
\* sync pass.
check_sync_safety_except ==
    [safe |-> TRUE, warning_type |-> "none", changes_count |-> 0]

\* auto_sync after check_sync_safety has returned safety: the alert, or
\* run_full_sync(delete_orphans_override=initial_sync_delete).
auto_sync(safety) ==
    /\ thr["auto"].pc = "check"
    /\ fs' = dry_run_effect(fs, state, task.delete_orphans).fs
    /\ state' = dry_run_effect(fs, state, task.delete_orphans).state
    /\ IF ~safety.safe
       THEN /\ alerts' = Append(alerts, InitialSyncAlert(safety))
            /\ thr' = [thr EXCEPT !["auto"] = IdleThread]
       ELSE /\ UNCHANGED alerts
            /\ IF is_syncing
               THEN thr' = [thr EXCEPT !["auto"] = IdleThread]
               ELSE /\ thr["plan"].pc = "idle"
                    /\ thr' = [thr EXCEPT !["auto"] = IdleThread,
                                          !["plan"].pc = "planning",
                                          !["plan"].arg =
                                             [delete_orphans |-> task.initial_sync_delete,
                                              by |-> "auto_sync"]]
    /\ UNCHANGED <<qvars, fsync, is_syncing, task, status, file_event_batch,
                   batch_timer, loose_timers, paused_batch, is_safety_paused,
                   nev>>
    /\ UNCHANGED pvars

\* auto_sync: the safety check with its dry run, then the alert or
\* run_full_sync.
AutoSync == auto_sync(check_sync_safety)

\* auto_sync when the dry run of check_sync_safety raises.
AutoSyncDryRunRaises == auto_sync(check_sync_safety_except)

\* The threads run_full_sync starts for plan_and_queue.
PlanThreads == {"plan", "plan2"}

\* run_full_sync() called by the user or the scheduler: the override is
\* None, so the task's delete_orphans applies.  False when _is_syncing is
\* set; otherwise the plan_and_queue thread is started and the call returns
\* True.
run_full_sync ==
    /\ IF is_syncing
       THEN thr' = [thr EXCEPT !["ui"].pc = "sync_false"]
       ELSE \E t \in PlanThreads \cap DOMAIN thr :
              /\ thr[t].pc = "idle"
              /\ fsync.runs
                   + Cardinality({u \in PlanThreads \cap DOMAIN thr :
                                    thr[u].pc \in {"planning", "scanning"}})
                   < MaxSyncs
              /\ thr' = [thr EXCEPT ![t].pc = "planning",
                                    ![t].arg = [delete_orphans |-> task.delete_orphans,
                                                by |-> "user"],
                                    !["ui"].pc = "sync_true"]
    /\ UNCHANGED <<qvars, fvars, rvars>>

\* plan_and_queue: with self._operation_lock, then self._is_syncing = True.
PlanStart(t) ==
    /\ thr[t].pc = "planning"
    /\ \A u \in (PlanThreads \cap DOMAIN thr) \ {t} : thr[u].pc # "scanning"
    /\ is_syncing' = TRUE
    /\ thr' = [thr EXCEPT ![t].pc = "scanning"]
    /\ UNCHANGED <<qvars, rvars, fs, state, fsync>>
    /\ UNCHANGED pvars

\* plan_and_queue: scan_and_plan and the list for add_batch_operations,
\* then the lock is released; an empty plan ends the thread.
PlanScan(t) ==
    /\ thr[t].pc = "scanning"
    /\ LET l == scan_and_plan(fs, state, thr[t].arg.delete_orphans,
                              <<thr[t].arg.by, fsync.runs>>)
       IN IF l = <<>>
          THEN /\ thr' = [thr EXCEPT ![t] = IdleThread]
               /\ is_syncing' = FALSE
          ELSE /\ thr' = [thr EXCEPT ![t].pc = "adding",
                                     ![t].adding = l,
                                     ![t].then = "finally"]
               /\ UNCHANGED is_syncing
    /\ fsync' = [fsync EXCEPT !.runs = @ + 1]
    /\ UNCHANGED <<qvars, rvars, fs, state>>
    /\ UNCHANGED pvars

\* plan_and_queue: finally: self._is_syncing = False.
PlanFinally(t) ==
    /\ thr[t].pc = "finally"
    /\ is_syncing' = FALSE
    /\ thr' = [thr EXCEPT ![t] = IdleThread]
    /\ UNCHANGED <<qvars, rvars, fs, state, fsync>>
    /\ UNCHANGED pvars

\* _execute_operation with TaskManager._execute_queue_operation installed:
\* the processor's execute_op.
WorkerExecuteOp ==
    /\ wpc = "exec"
    /\ exec_log' = Append(exec_log, wop)
    /\ wres' = execute_op(fs, ops[wop]).ok
    /\ fs' = execute_op(fs, ops[wop]).fs
    /\ wpc' = "record"
    /\ UNCHANGED <<ops, queue, pending_ops, current_op, completed_count,
                   failed_count, is_paused, wop, thr, rvars, state, fsync,
                   is_syncing>>
    /\ UNCHANGED pvars

\* ------------------------------------ Spec: one runner and its safety gate
\* A started task whose watchers deliver events; the user confirms or
\* resets a safety pause.  The operations go onto the queue; what the worker
\* does with them is the subject of SpecQueue.
Threads == TimerThreads \cup {"ui"}

Init ==
    /\ QueueInit
    /\ RunnerInit
    /\ FsIdle
    /\ \E mode \in {"one_way", "two_way"} : task = Task(mode, <<"T1">>)
    /\ thr = [t \in Threads |-> IdleThread]

Next ==
    \/ SourceWatcherCallback
    \/ TargetWatcherCallback
    \/ \E t \in TimerThreads : TimerFire(t)
    \/ \E t \in TimerThreads : FlushSnapshot(t)
    \/ \E t \in TimerThreads : FlushGate(t)
    \/ \E t \in TimerThreads : FlushExtend(t)
    \/ \E t \in TimerThreads : FlushAlert(t)
    \/ ConfirmCopy
    \/ ConfirmRun
    \/ reset_safety_pause
    \/ runner_pause
    \/ runner_resume
    \/ \E t \in Threads : AddOperation(t)

Spec == Init /\ [][Next]_vars

\* ------------------------------------------- SpecQueue: several runners
\* The threads of two runners that call add_batch_operations.
Callers == {"r1", "r2"}

\* What the batches of each runner ask for: r1 copies, r2 deletes.
CallerOpType(t) == IF t = "r1" THEN "copy" ELSE "delete"

RECURSIVE SumLen(_, _)
SumLen(f, S) ==
    IF S = {} THEN 0
    ELSE LET x == CHOOSE y \in S : TRUE
         IN Len(f[x].adding) + SumLen(f, S \ {x})

\* Operations handed to add_batch_operations and not yet on the queue.
InFlight == SumLen(thr, DOMAIN thr)

\* A runner's thread calls add_batch_operations with a list of n operations.
CallAddBatch(t) ==
    /\ thr[t].pc = "idle"
    /\ \E n \in 1..MaxBatch :
         /\ Len(ops) + InFlight + n <= MaxOps
         /\ thr' = [thr EXCEPT ![t].pc = "adding",
                   ![t].adding =
                      [i \in 1..n |->
                         OpData(CallerOpType(t), Path("S", Name("a")),
                                IF CallerOpType(t) = "copy"
                                THEN Path("T1", Name("a")) ELSE NoPath,
                                t, <<t, Len(ops)>>, i, 0)]]
    /\ UNCHANGED <<qvars, fvars, rvars>>

QInit ==
    /\ QueueInit
    /\ RunnerInit
    /\ FsIdle
    /\ FsIdle
    /\ task = Task("one_way", <<"T1">>)
    /\ thr = [t \in Callers |-> IdleThread]

QNext ==
    \/ \E t \in Callers : CallAddBatch(t)
    \/ \E t \in Callers : AddOperation(t)
    \/ pause
    \/ resume
    \/ clear
    \/ WorkerCheckPause
    \/ WorkerGet
    \/ WorkerMarkRunning
    \/ WorkerExecute
    \/ WorkerRecord
    \/ WorkerCount
    \/ WorkerRemove

SpecQueue == QInit /\ [][QNext]_vars

\* The worker thread is a daemon thread of its own: while the queue runs it
\* keeps taking the steps of its loop.
WorkerStep ==
    \/ WorkerCheckPause
    \/ WorkerGet
    \/ WorkerMarkRunning
    \/ WorkerExecute
    \/ WorkerRecord
    \/ WorkerCount
    \/ WorkerRemove

\* The queue with one runner enqueueing.
LiveNext ==
    \/ CallAddBatch("r1")
    \/ AddOperation("r1")
    \/ pause
    \/ resume
    \/ clear
    \/ WorkerStep

SpecQueueLive == QInit /\ [][LiveNext]_vars /\ WF_vars(WorkerStep)

\* --------------------------------------- SpecSync: full_sync of a processor
\* A SyncProcessor with a state store, run over directories the user has
\* left in any condition: the source file a absent or present, each target
\* copy absent, equal, or different in bytes, size or time.
Strategies ==
    {"newest_wins", "source_wins", "target_wins", "keep_both", "skip", "ask_user"}

SourceFiles == {NoFile, File(1, 1), File(1, 2)}

TargetFiles == {NoFile} \cup {File(c, m) : c \in 1..3, m \in 1..2}

DirWith(x) == [EmptyDir EXCEPT ![Name("a")] = x]

SyncInit ==
    /\ QueueInit
    /\ RunnerInit
    /\ thr = [t \in Threads |-> IdleThread]
    /\ \E mode \in {"one_way", "two_way"}, cm \in {"mtime", "hash"},
          cs \in Strategies, del \in BOOLEAN,
          targets \in {<<"T1">>, <<"T1", "T2">>} :
          /\ cm = "hash" => cs = "newest_wins"
          /\ task = [Task(mode, targets) EXCEPT
                       !.conflict_strategy = cs, !.compare_method = cm,
                       !.task_id = TheTaskId, !.delete_orphans = del]
    /\ \E s \in SourceFiles, t1 \in TargetFiles, t2 \in TargetFiles :
          /\ Len(task.target_paths) = 1 => t2 = NoFile
          /\ fs = [b \in {"S", "T1", "T2"} |->
                     IF b = "S" THEN DirWith(s)
                     ELSE IF b = "T1" THEN DirWith(t1) ELSE DirWith(t2)]
    /\ \E h \in 0..2 :
          /\ task.compare_method = "mtime" => h = 0
          /\ state = [n \in Names |-> IF n = Name("a") THEN h ELSE 0]
    /\ fsync = NoSync
    /\ is_syncing = FALSE
    /\ NoProcessor

SyncNext ==
    \/ FullSyncStart
    \/ FullSyncFile
    \/ FullSyncOrphan
    \/ FullSyncReverseFile
    \/ FullSyncAdvance

SpecSync == SyncInit /\ [][SyncNext]_vars

\* ------------------------------- SpecTask: a one_way task from start() on
\* The task is started; its initial full sync is checked, planned and
\* queued; the user edits the source, the watcher reports the edits; the
\* worker executes the operations with the processor's execute_op.  The
\* batches stay below the safety threshold; Spec has the batches that
\* reach it.
TaskThreads == {"timer1", "auto", "plan", "ui"}

\* Most edits the user makes in one run.
MaxEdits == 1

\* The user writes new bytes to the source file a.
UserWrite ==
    /\ nev < MaxEdits
    /\ fs' = [fs EXCEPT !["S"][Name("a")] = File(2, 2)]
    /\ on_file_event(FileEvent(IF fs["S"][Name("a")] = NoFile
                               THEN "created" ELSE "modified",
                               Path("S", Name("a")), NoPath, FALSE, 0))
    /\ UNCHANGED <<qvars, thr, task, status, loose_timers, paused_batch,
                   is_safety_paused, alerts, state, fsync, is_syncing>>
    /\ UNCHANGED pvars

\* The user deletes the source file a.
UserDelete ==
    /\ nev < MaxEdits
    /\ fs["S"][Name("a")] # NoFile
    /\ fs' = [fs EXCEPT !["S"][Name("a")] = NoFile]
    /\ on_file_event(FileEvent("deleted", Path("S", Name("a")), NoPath, FALSE, 0))
    /\ UNCHANGED <<qvars, thr, task, status, loose_timers, paused_batch,
                   is_safety_paused, alerts, state, fsync, is_syncing>>
    /\ UNCHANGED pvars

\* The user renames the source file a to b.
UserMove ==
    /\ nev < MaxEdits
    /\ fs["S"][Name("a")] # NoFile
    /\ fs' = move_file(fs, Path("S", Name("a")), Path("S", Name("b")))
    /\ on_file_event(FileEvent("moved", Path("S", Name("a")),
                               Path("S", Name("b")), FALSE, 0))
    /\ UNCHANGED <<qvars, thr, task, status, loose_timers, paused_batch,
                   is_safety_paused, alerts, state, fsync, is_syncing>>
    /\ UNCHANGED pvars

TaskInit ==
    /\ QueueInit
    /\ status = "stopped"
    /\ file_event_batch = <<>>
    /\ batch_timer = "none"
    /\ loose_timers = 0
    /\ paused_batch = <<>>
    /\ is_safety_paused = FALSE
    /\ alerts = <<>>
    /\ nev = 0
    /\ thr = [t \in TaskThreads |-> IdleThread]
    /\ \E dd \in BOOLEAN, del \in BOOLEAN, isd \in BOOLEAN :
          task = [Task("one_way", <<"T1">>) EXCEPT
                    !.disable_delete = dd, !.delete_orphans = del,
                    !.initial_sync_delete = isd]
    /\ \E sa \in {NoFile, File(1, 1)}, sb \in {NoFile, File(1, 1)},
          ta \in {NoFile, File(3, 2)} :
          fs = [b \in {"S", "T1", "T2"} |->
                  IF b = "S"
                  THEN [EmptyDir EXCEPT ![Name("a")] = sa, ![Name("b")] = sb]
                  ELSE IF b = "T1" THEN DirWith(ta) ELSE EmptyDir]
    /\ state = [n \in Names |-> 0]
    /\ fsync = NoSync
    /\ is_syncing = FALSE
    /\ NoProcessor

TaskNext ==
    \/ start
    \/ AutoSync
    \/ PlanStart("plan")
    \/ PlanScan("plan")
    \/ PlanFinally("plan")
    \/ UserWrite
    \/ UserDelete
    \/ UserMove
    \/ TimerFire("timer1")
    \/ FlushSnapshot("timer1")
    \/ FlushGate("timer1")
    \/ \E t \in TaskThreads : AddOperation(t)
    \/ WorkerCheckPause
    \/ WorkerGet
    \/ WorkerMarkRunning
    \/ WorkerExecuteOp
    \/ WorkerRecord
    \/ WorkerCount
    \/ WorkerRemove

SpecTask == TaskInit /\ [][TaskNext]_vars

\* ------------------------------------------- Spec: the runner's life cycle
\* start, stop, pause and resume of one runner with its watcher, its batch
\* timer and its initial sync.
LifeInit ==
    /\ TaskInit
    /\ task = Task("one_way", <<"T1">>)
    /\ fs["T1"] = EmptyDir

LifeNext ==
    \/ start
    \/ start_no_monitor
    \/ start_raises
    \/ stop
    \/ runner_pause
    \/ runner_resume
    \/ AutoSync
    \/ PlanStart("plan")
    \/ PlanScan("plan")
    \/ PlanFinally("plan")
    \/ UserWrite
    \/ UserDelete
    \/ UserMove
    \/ TimerFire("timer1")
    \/ FlushSnapshot("timer1")
    \/ FlushGate("timer1")
    \/ \E t \in TaskThreads : AddOperation(t)

SpecLife == LifeInit /\ [][LifeNext]_vars

\* ------------------------------------- Spec: calls of run_full_sync
\* A running one_way task whose full sync is asked for again and again, by
\* the user or the scheduler; every call that passes the test of
\* _is_syncing starts a plan_and_queue thread of its own.
FullSyncThreads == PlanThreads \cup {"ui"}

FullSyncInit ==
    /\ QueueInit
    /\ RunnerInit
    /\ thr = [t \in FullSyncThreads |-> IdleThread]
    /\ \E dd \in BOOLEAN, del \in BOOLEAN :
          task = [Task("one_way", <<"T1">>) EXCEPT
                    !.disable_delete = dd, !.delete_orphans = del]
    /\ \E sa \in {NoFile, File(1, 1)}, sb \in {NoFile, File(1, 1)},
          ta \in {NoFile, File(3, 2)} :
          fs = [b \in {"S", "T1", "T2"} |->
                  IF b = "S"
                  THEN [EmptyDir EXCEPT ![Name("a")] = sa, ![Name("b")] = sb]
                  ELSE IF b = "T1" THEN DirWith(ta) ELSE EmptyDir]
    /\ state = [n \in Names |-> 0]
    /\ fsync = NoSync
    /\ is_syncing = FALSE
    /\ NoProcessor

FullSyncNext ==
    \/ run_full_sync
    \/ \E t \in PlanThreads : PlanStart(t)
    \/ \E t \in PlanThreads : PlanScan(t)
    \/ \E t \in PlanThreads : PlanFinally(t)
    \/ \E t \in PlanThreads : AddOperation(t)

SpecFullSync == FullSyncInit /\ [][FullSyncNext]_vars

\* ------------------------------------- Spec: the initial sync of start()
\* A runner that is started and stopped over a tree nobody edits; the dry
\* run of the safety check returns its results or raises.  (SpecTask and
\* SpecLife are the runs in which it returns.)
AutoSyncNext ==
    \/ start
    \/ stop
    \/ AutoSync
    \/ AutoSyncDryRunRaises
    \/ PlanStart("plan")
    \/ PlanScan("plan")
    \/ PlanFinally("plan")
    \/ AddOperation("plan")

SpecAutoSync == TaskInit /\ [][AutoSyncNext]_vars

\* ----------------------------------------------- Spec: the file filters
\* The filter of the processor and of the source watcher.  Here a path is
\* the sequence of its components, and a pattern is a path whose last
\* component may be "*".
\* Most components of a path in the source tree.
MaxDepth == 3

Components == {"a", "backup"}

RECURSIVE PathsBelow(_, _)
\* The paths of at most n components below directory d.
PathsBelow(d, n) ==
    IF n = 0 THEN {}
    ELSE LET next == {Append(d, c) : c \in Components}
         IN next \cup UNION {PathsBelow(q, n - 1) : q \in next}

\* The files a scan of the source directory can find.
TreePaths == PathsBelow(<<"S">>, MaxDepth - 1)

\* os.path.basename
basename(path) == <<path[Len(path)]>>

\* os.path.relpath(path, d) is relative and does not start with "..".
IsUnder(path, d) == Len(path) > Len(d) /\ SubSeq(path, 1, Len(d)) = d

\* fnmatch.fnmatch(name, pattern): the whole name matches the pattern; "*"
\* matches any run of characters, separators included.
fnmatch(name, pattern) ==
    IF pattern # <<>> /\ pattern[Len(pattern)] = "*"
    THEN /\ Len(name) >= Len(pattern)
         /\ SubSeq(name, 1, Len(pattern) - 1) = SubSeq(pattern, 1, Len(pattern) - 1)
    ELSE name = pattern

\* match_file_patterns: True if the file is to be processed.
match_file_patterns(filepath, include_patterns, exclude_patterns) ==
    /\ \A i \in 1..Len(exclude_patterns) :
          /\ ~fnmatch(basename(filepath), exclude_patterns[i])
          /\ ~fnmatch(filepath, exclude_patterns[i])
    /\ \/ include_patterns = <<>>
       \/ \E i \in 1..Len(include_patterns) :
             \/ fnmatch(basename(filepath), include_patterns[i])
             \/ fnmatch(filepath, include_patterns[i])

RECURSIVE AddNested(_, _, _)
\* The loop of _get_effective_excludes over the targets.
AddNested(excludes, targets, source) ==
    IF targets = <<>> THEN excludes
    ELSE LET tp == Head(targets)
             withPath == Append(excludes, tp)
             withName == IF InSeq(withPath, basename(tp)) THEN withPath
                         ELSE Append(withPath, basename(tp))
         IN AddNested(IF IsUnder(tp, source) THEN withName ELSE excludes,
                      Tail(targets), source)

\* _get_effective_excludes
get_effective_excludes ==
    AddNested(task.exclude_patterns, task.target_paths, task.source_path)

\* SyncProcessor(...) with the exclude patterns ex, constructed by who.
SyncProcessor(ex, who) ==
    [include_patterns |-> task.include_patterns, exclude_patterns |-> ex,
     by |-> who]

\* start(): the processor gets the effective excludes.
ConstructByStart ==
    /\ processor.by # "start"
    /\ processor' = SyncProcessor(get_effective_excludes, "start")
    /\ UNCHANGED <<qvars, rvars, thr, fs, state, fsync, is_syncing, filtered, evars>>

\* plan_and_queue of run_full_sync on a runner without processor.
ConstructByFullSync ==
    /\ processor.by = "none"
    /\ processor' = SyncProcessor(task.exclude_patterns, "run_full_sync")
    /\ UNCHANGED <<qvars, rvars, thr, fs, state, fsync, is_syncing, filtered, evars>>

\* _execute_queue_operation for a runner without processor.
ConstructByExecutor ==
    /\ processor.by = "none"
    /\ processor' = SyncProcessor(task.exclude_patterns, "executor")
    /\ UNCHANGED <<qvars, rvars, thr, fs, state, fsync, is_syncing, filtered, evars>>

\* SyncProcessor._should_process_file for a file of the source tree.
ShouldProcessFile ==
    /\ processor.by # "none"
    /\ \E path \in TreePaths :
          filtered' = [path |-> path, by |-> "processor",
                       accepted |-> match_file_patterns(path,
                                       processor.include_patterns,
                                       processor.exclude_patterns)]
    /\ UNCHANGED <<qvars, rvars, thr, fs, state, fsync, is_syncing, processor, evars>>

\* DebouncedEventHandler._should_ignore of the source watcher start()
\* created, for a path without a leading dot.
WatcherShouldIgnore ==
    /\ processor.by # "none"
    /\ processor.by = "start"
    /\ \E path \in TreePaths :
          filtered' = [path |-> path, by |-> "watcher",
                       accepted |-> match_file_patterns(path,
                                       task.include_patterns,
                                       get_effective_excludes)]
    /\ UNCHANGED <<qvars, rvars, thr, fs, state, fsync, is_syncing, processor, evars>>

\* A task with source S, one target and the user's exclude patterns.
FilterTask(target, excludes) ==
    [Task("one_way", <<target>>) EXCEPT !.exclude_patterns = excludes]

FilterInit ==
    /\ QueueInit
    /\ RunnerInit
    /\ FsIdle
    /\ thr = [t \in Threads |-> IdleThread]
    /\ \E target \in {<<"S", "backup">>, <<"T">>},
          excludes \in {<<>>, << <<"a">> >>, << <<"S", "backup", "*">> >>} :
          task = FilterTask(target, excludes)

FilterNext ==
    \/ ConstructByStart
    \/ ConstructByFullSync
    \/ ConstructByExecutor
    \/ ShouldProcessFile
    \/ WatcherShouldIgnore

SpecFilter == FilterInit /\ [][FilterNext]_vars

\* ------------------------- SpecDebounce: one handler, its observer, timers
DebounceInit ==
    /\ QueueInit
    /\ RunnerInit
    /\ FsIdle
    /\ thr = [t \in Threads |-> IdleThread]
    /\ task = Task("one_way", <<"T1">>)

DebounceNext ==
    \/ \E p \in WatchedPaths : add_event(p)
    \/ schedule_callback
    \/ \E t \in TimerIds : timer_expires(t)
    \/ \E t \in TimerIds : process_events(t)
    \/ \E t \in TimerIds : deliver(t)

SpecDebounce == DebounceInit /\ [][DebounceNext]_vars

\* ---------------------- SpecScheduler: the scheduler and its callers
SchedulerInit == DebounceInit

\* A caller of add_job that passes a job_id no job has.
AddJobWithId(task_id, schedule_type, job_id) ==
    /\ sched.jobs[job_id] = NoJob
    /\ add_job(task_id, schedule_type, job_id)

SchedulerNext ==
    \/ \E t \in TaskIds, ty \in ScheduleTypes, j \in JobIds :
          AddJobWithId(t, ty, j)
    \/ \E j \in JobIds : job_wrapper(j)
    \/ \E who \in {"caller", "remover"}, j \in JobIds : remove_job(who, j)
    \/ \E t \in TaskIds : remove_task_jobs(t)
    \/ \E j \in JobIds : enable_job(j)
    \/ \E j \in JobIds : disable_job(j)

SpecScheduler == SchedulerInit /\ [][SchedulerNext]_vars

\* ------------------------------------- Spec: the ids add_job generates
\* A scheduler whose callers leave job_id out, so that add_job makes the
\* id up, and remove jobs again.
\* Most jobs held at once.
MaxJobs == 3

\* f"job_{task_id}_{n}"
JobName(task_id, n) == <<"job", task_id, n>>

GeneratedIds == {JobName(t, n) : t \in TaskIds, n \in 0..(MaxJobs - 1)}

\* The jobs in self._jobs.
Registered(s) == {j \in DOMAIN s.jobs : s.jobs[j] # NoJob}

\* add_job with job_id None: job_id = f"job_{task_id}_{len(self._jobs)}".
generated_job_id(task_id) == JobName(task_id, Cardinality(Registered(sched)))

\* A caller of add_job that passes no job_id.
AddJobWithoutId(task_id, schedule_type) ==
    /\ Cardinality(Registered(sched)) < MaxJobs
    /\ add_job(task_id, schedule_type, generated_job_id(task_id))

JobIdsInit ==
    /\ QueueInit
    /\ RunnerInit
    /\ fs = [b \in {"S", "T1", "T2"} |-> EmptyDir]
    /\ state = [n \in Names |-> 0]
    /\ fsync = NoSync
    /\ is_syncing = FALSE
    /\ processor = [include_patterns |-> <<>>, exclude_patterns |-> <<>>,
                    by |-> "none"]
    /\ filtered = NotFiltered
    /\ deb = IdleHandler
    /\ monitors = NoMonitor
    /\ sched = [IdleScheduler EXCEPT
                  !.jobs = [j \in GeneratedIds |-> NoJob],
                  !.last_run = [j \in GeneratedIds |-> 0],
                  !.calls = [j \in GeneratedIds |-> 0]]
    /\ thr = [t \in Threads |-> IdleThread]
    /\ task = Task("one_way", <<"T1">>)

JobIdsNext ==
    \/ \E t \in TaskIds, ty \in ScheduleTypes : AddJobWithoutId(t, ty)
    \/ \E j \in GeneratedIds : remove_job("caller", j)

SpecJobIds == JobIdsInit /\ [][JobIdsNext]_vars

\* ================================================================ claims

\* The event a watcher delivered for a batch item, in whichever component
\* of the tuple it was stored.
DeliveredEvent(item) ==
    IF item.event.kind = "FileEvent" THEN item.event ELSE item.target_base

RECURSIVE DeliveredChanges(_)
DeliveredChanges(batch) ==
    IF batch = <<>> THEN 0
    ELSE EventChanges(DeliveredEvent(Head(batch))) + DeliveredChanges(Tail(batch))

\* Number of the dicts in l that were translated from event e.
OpsOf(l, e) == Cardinality({i \in 1..Len(l) : l[i].eid = e})

\* Number of operations one held item stands for.
Destinations(item) == IF item.is_reverse THEN 1 ELSE Len(task.target_paths)

Leaves(t, pc) == thr[t].pc = pc /\ thr'[t].pc # pc

SafetyAlertFor(count) == SafetyAlert(count, FALSE)

C2_OneWayConverges ==
    (fsync.pc = "done" /\ task.sync_mode = "one_way") =>
        /\ \A n \in scan_directory(fs, "S") : \A tb \in TargetDirs :
              /\ fs[tb][n] # NoFile
              /\ fs[tb][n].c = fs["S"][n].c
        /\ task.delete_orphans =>
              \A tb \in TargetDirs : scan_directory(fs, tb) \subseteq scan_directory(fs, "S")

\* C3: for a two_way task that compares by hash, after a full sync every
\* relative path with a state record either has the source copy and every
\* target copy hash to the recorded hash, or is absent on one side (a
\* deletion still to be propagated).
C3_TwoWayHashAgree ==
    (fsync.pc = "done" /\ task.sync_mode = "two_way"
        /\ task.compare_method = "hash") =>
        \A n \in Names :
           (state[n] # 0 /\ \E b \in Sides : fs[b][n] # NoFile) =>
              \/ \A b \in Sides : fs[b][n] # NoFile /\ get_file_hash(fs[b][n]) = state[n]
              \/ \E b \in Sides : fs[b][n] = NoFile

\* C4: a flush that finds the task not safety-paused and counts n changes:
\* with n >= safety_threshold the batch goes to the paused buffer, the flag
\* becomes true, a safety_alert is emitted and nothing is enqueued; with
\* n <= safety_threshold - 1 the batch is translated and enqueued and the
\* flag stays false.
C4_GateRoutesBatch ==
    [][\A t \in TimerThreads :
        /\ (Leaves(t, "gate") /\ ~is_safety_paused) =>
              IF DeliveredChanges(thr[t].snap) >= task.safety_threshold
              THEN /\ is_safety_paused'
                   /\ thr'[t].pc = "trip_extend"
                   /\ thr'[t].snap = thr[t].snap
                   /\ thr'[t].adding = <<>>
              ELSE /\ ~is_safety_paused'
                   /\ thr'[t].pc = "adding"
                   /\ \A i \in 1..Len(thr[t].snap) :
                         OpsOf(thr'[t].adding, thr[t].snap[i].eid)
                            = Destinations(thr[t].snap[i])
        /\ Leaves(t, "trip_extend") =>
              /\ paused_batch' = paused_batch \o thr[t].snap
              /\ UNCHANGED <<ops, queue>>
        /\ Leaves(t, "trip_alert") =>
              alerts' = Append(alerts, SafetyAlertFor(Len(paused_batch)))
      ]_vars

\* C5: while the task is safety-paused every flushed batch is appended to
\* the paused buffer, no operation is enqueued for a held event, and each
\* such flush emits a safety_alert whose accumulated_count is the length of
\* the paused buffer.
C5_PausedFlushHeld ==
    [][\A t \in TimerThreads :
        /\ (Leaves(t, "gate") /\ is_safety_paused) =>
              /\ thr'[t].pc = "paused_extend"
              /\ thr'[t].snap = thr[t].snap
              /\ thr'[t].adding = <<>>
        /\ Leaves(t, "paused_extend") =>
              /\ paused_batch' = paused_batch \o thr[t].snap
              /\ UNCHANGED <<ops, queue>>
        /\ Leaves(t, "paused_alert") =>
              /\ Len(alerts') = Len(alerts) + 1
              /\ alerts'[Len(alerts')].action = "safety_alert"
              /\ alerts'[Len(alerts')].accumulated_count = Len(paused_batch)
      ]_vars

\* C6: confirm_safety_alert enqueues operations for exactly the held events
\* (each once per destination, none added, none dropped), empties the
\* buffer and clears the flag; reset_safety_pause empties the buffer, clears
\* the flag and enqueues nothing.
C6_ConfirmRunsHeld ==
    [][/\ Leaves("ui", "confirm") =>
             /\ paused_batch' = <<>>
             /\ ~is_safety_paused'
             /\ \A i \in 1..Len(paused_batch) :
                   OpsOf(thr'["ui"].adding, paused_batch[i].eid)
                      = Destinations(paused_batch[i])
             /\ \A j \in 1..Len(thr'["ui"].adding) :
                   \E i \in 1..Len(paused_batch) :
                      paused_batch[i].eid = thr'["ui"].adding[j].eid
       /\ (thr["ui"].pc = "idle" /\ thr'["ui"].pc = "idle"
             /\ (paused_batch' # paused_batch \/ is_safety_paused # is_safety_paused')
             /\ \A t \in TimerThreads : thr'[t] = thr[t]) =>
             /\ paused_batch' = <<>>
             /\ ~is_safety_paused'
             /\ UNCHANGED <<ops, queue, thr>>
      ]_vars

\* The plan of the full sync auto_sync would start.
InitialPlan == scan_and_plan(fs, state, task.initial_sync_delete, <<"", 0>>)

\* C7: the initial full sync of start() enqueues nothing without
\* confirmation when its planned changes exceed safety_threshold, or when
\* the source is empty and the sync would delete target files, whatever
\* delete_orphans and initial_sync_delete are; a safety alert marked
\* is_initial_sync is emitted instead.
C7_InitialSyncGated ==
    [][(Leaves("auto", "check")
          /\ \/ Len(InitialPlan) > task.safety_threshold
             \/ /\ scan_directory(fs, "S") = {}
                /\ \E i \in 1..Len(InitialPlan) : InitialPlan[i].op_type = "delete")
        => /\ thr'["plan"] = thr["plan"]
           /\ Len(alerts') = Len(alerts) + 1
           /\ alerts'[Len(alerts')].is_initial_sync
      ]_vars

C9_OneRunning ==
    /\ Cardinality({i \in 1..Len(ops) : ops[i].status = "running"}) <= 1
    /\ \A k \in 1..Len(exec_log) :
          k < Len(exec_log) => ops[exec_log[k]].status \in {"completed", "failed"}

\* Two operations have been handed to the executor, the second is running
\* and a third is waiting on the queue.
C9_Witness ==
    /\ Len(exec_log) = 2
    /\ ops[exec_log[2]].status = "running"
    /\ queue # <<>>

\* C10: the executor receives the operations in the order they were
\* enqueued, and the operations of one add_batch_operations call in the
\* order of the list, also when several runners enqueue concurrently.
C10_FifoOrder ==
    \A k, l \in 1..Len(exec_log) :
        k < l =>
           /\ exec_log[k] < exec_log[l]
           /\ ops[exec_log[k]].batch = ops[exec_log[l]].batch
                 => ops[exec_log[k]].idx < ops[exec_log[l]].idx

\* Three operations were executed: the two of one runner's batch with one
\* of the other runner enqueued between them.
C10_Witness ==
    /\ Len(exec_log) = 3
    /\ ops[exec_log[1]].batch = ops[exec_log[3]].batch
    /\ ops[exec_log[2]].task_id # ops[exec_log[1]].task_id

\* C11: between the return of pause() and the call of resume() the worker
\* starts no operation: none goes from pending to running, and none is
\* handed to the executor; add_operation still stores new operations.
C11_PausedStartsNothing ==
    [][(is_paused /\ is_paused') =>
          /\ \A i \in 1..Len(ops) :
                ~(ops[i].status = "pending" /\ ops'[i].status = "running")
          /\ exec_log' = exec_log
      ]_vars

\* A call of clear(): the list of pending operations is emptied while the
\* worker stands still.
ClearStep == pending_ops # <<>> /\ pending_ops' = <<>> /\ wpc' = wpc

\* C12: clear() marks every operation that has not started running
\* cancelled, and a cancelled operation stays cancelled and is never handed
\* to the executor.
C12_ClearCancelsPending ==
    [][/\ ClearStep =>
             \A i \in 1..Len(ops) :
                ops[i].status = "pending" => ops'[i].status = "cancelled"
       /\ \A i \in 1..Len(ops) :
             ops[i].status = "cancelled" =>
                /\ ops'[i].status = "cancelled"
                /\ (exec_log' # exec_log => exec_log'[Len(exec_log')] # i)
      ]_vars

\* Number of operations whose status is st.
WithStatus(st) == Cardinality({i \in 1..Len(ops) : ops[i].status = st})

\* C13: the number of operations ever enqueued equals pending + running +
\* completed + failed + cancelled, with pending, completed and failed as
\* get_status reports them.
C13_CountsAddUp ==
    Len(ops) = StatusPending + WithStatus("running") + completed_count
               + failed_count + WithStatus("cancelled")

C15_StoppedEnqueuesNothing ==
    [][(status = "stopped" /\ status' = "stopped") =>
          /\ ops' = ops
          /\ \A t \in TaskThreads :
                thr[t].adding = <<>> => thr'[t].adding = <<>>
      ]_vars

\* The changes of status the specification names.
NamedEdges ==
    {<<"stopped", "running">>, <<"running", "paused">>,
     <<"paused", "running">>, <<"running", "stopped">>,
     <<"paused", "stopped">>}
    \cup {<<x, "error">> : x \in {"stopped", "running", "paused"}}

C17_WatcherFailureIsError ==
    [][start_no_monitor =>
          (thr'["ui"].pc = "start_false" /\ status' = "error")]_vars

\* C18: for a target directory inside the source directory, no file under
\* that target directory is accepted by the filter of the processor or of
\* the source watcher, whichever code path constructed the processor.
C18_NestedTargetExcluded ==
    \A i \in 1..Len(task.target_paths) :
        (/\ IsUnder(task.target_paths[i], task.source_path)
         /\ filtered.path # <<>>
         /\ IsUnder(filtered.path, task.target_paths[i]))
        => ~filtered.accepted

\* C19: a step of a full sync removes a file only in the orphan loop of a
\* one_way sync with delete_orphans, and then a target file whose name the
\* source does not have; in two_way mode or without delete_orphans no file
\* of either side is removed.
C19_OrphansOnly ==
    [][\A b \in DOMAIN fs : \A n \in Names :
          (fs[b][n] # NoFile /\ fs'[b][n] = NoFile) =>
             /\ task.sync_mode = "one_way"
             /\ fsync.delete_orphans
             /\ fsync.pc = "orphans"
             /\ b \in TargetDirs
             /\ fs["S"][n] = NoFile
      ]_vars

\* A one_way full sync with delete_orphans has deleted an orphan of a
\* target and is done.
C19_Witness ==
    /\ fsync.pc = "done"
    /\ task.sync_mode = "one_way"
    /\ fsync.delete_orphans
    /\ fsync.results.delete > 0

\* A full_sync call that follows another one is under way or has returned.
LaterSync ==
    \/ fsync.pc \in {"forward", "orphans", "reverse"} /\ fsync.runs >= 1
    \/ fsync.pc = "done" /\ fsync.runs >= 2

\* C20: a full sync that follows a full sync without errors, the files
\* untouched in between, copies and deletes nothing.
C20_SecondSyncEmpty ==
    (LaterSync /\ fsync.last.error = 0) =>
        (fsync.results.copy = 0 /\ fsync.results.delete = 0)

\* The changes the dry run of the safety check plans, and its deletions.
PlannedChanges ==
    {r \in dry_run_results(fs, state, task.delete_orphans) :
        r.action \in {"copy", "delete", "move"}}

PlannedDeletes == {r \in PlannedChanges : r.action = "delete"}

\* The source is empty and a one_way sync with delete_orphans would delete.
EmptySourceCase ==
    /\ task.sync_mode = "one_way"
    /\ task.delete_orphans
    /\ scan_directory(fs, "S") = {}
    /\ PlannedDeletes # {}

\* The alert auto_sync raises in this step is of type ty for the planned
\* number of changes.
RaisesAlert(ty) ==
    /\ Len(alerts') = Len(alerts) + 1
    /\ alerts'[Len(alerts')].alert_type = ty
    /\ alerts'[Len(alerts')].accumulated_count = Cardinality(PlannedChanges)

\* C21: the safety check answers empty_source exactly in the empty-source
\* case, otherwise massive_change exactly when the planned copy, delete and
\* move actions number safety_threshold or more, otherwise safe.
C21_SafetyVerdict ==
    [][Leaves("auto", "check") =>
          IF EmptySourceCase THEN RaisesAlert("empty_source")
          ELSE IF Cardinality(PlannedChanges) >= task.safety_threshold
          THEN RaisesAlert("massive_change")
          ELSE alerts' = alerts
      ]_vars

\* The check has found the source empty and one deletion planned, fewer
\* changes than the threshold, and has answered empty_source.
C21_Witness ==
    /\ alerts # <<>>
    /\ alerts[1].alert_type = "empty_source"
    /\ alerts[1].accumulated_count < task.safety_threshold

\* The timer thread t takes the pending events in this step.
TakesPending(t) == deb.timers[t] = "fired" /\ deb'.timers[t] # "fired"

\* No event reaches the callback twice.
NoEventTwice ==
    \A i, k \in 1..Len(deb.delivered) :
        deb.delivered[i].event = deb.delivered[k].event => i = k

\* The events for one path that arrive before a timer thread takes the
\* pending events collapse into one: a timer thread delivers at most one
\* event for a path.
OnePerTimerAndPath ==
    \A i, k \in 1..Len(deb.delivered) :
        (deb.delivered[i].by = deb.delivered[k].by
           /\ deb.delivered[i].path = deb.delivered[k].path) => i = k

\* C22: the debounced handler delivers no event twice, delivers at most one
\* event for a path from one firing of the timer,
\* and takes the pending events for delivery only when debounce_seconds
\* have passed without an arrival, that is, in the thread of the timer the
\* last arrival started, under every interleaving of arrivals and timers.
C22_QuietWindow ==
    /\ []NoEventTwice
    /\ []OnePerTimerAndPath
    /\ [][\A t \in TimerIds : TakesPending(t) => deb.arrivals = t]_vars

\* The job job_id is in _jobs.
InJobs(job_id) == sched.jobs[job_id] # NoJob

\* job_id's callback is invoked in this step.
Fires(job_id) == sched'.calls[job_id] > sched.calls[job_id]

\* C23: a job added with schedule_type once fires its callback when due and
\* is then removed from the job list: a once job on the list has a schedule
\* entry that runs it when due, its callback is invoked at most once, and
\* the step that invokes it takes it off the list.
C23_OnceJobFiresOnce ==
    /\ [](\A j \in JobIds :
            (InJobs(j) /\ sched.jobs[j].schedule_type = "once")
                => (j \in sched.registered /\ sched.calls[j] <= 1))
    /\ [][\A j \in JobIds :
            (InJobs(j) /\ sched.jobs[j].schedule_type = "once" /\ Fires(j))
                => sched'.jobs[j] = NoJob]_vars

\* C24: the callback of a job that is disabled is not invoked.
C24_DisabledJobSilent ==
    [][\A j \in JobIds :
          (InJobs(j) /\ ~sched.jobs[j].enabled) => ~Fires(j)]_vars

\* C25: remove_task_jobs terminates: the thread inside it never waits for a
\* lock that only it can release.
C25_RemoveTaskJobsReturns ==
    ~(sched.remover.pc = "remove_job" /\ sched.lock = "remover")

\* This step is the _sync_file_reverse call for the file n of the target tb.
ReverseStep(n, tb) ==
    /\ fsync.pc = "reverse"
    /\ task.target_paths[fsync.ti] = tb
    /\ n \in fsync.todo
    /\ n \notin fsync'.todo

\* C26: in two_way mode the reverse pass copies a file that exists only
\* under a target (no state record, no source counterpart) to the source.
C26_TargetOnlyCopiedBack ==
    [][\A n \in Names, tb \in {"T1", "T2"} :
          (/\ ReverseStep(n, tb)
           /\ task.sync_mode = "two_way"
           /\ ~Exists(fs, Path("S", n))
           /\ state[n] = 0)
              => fs'["S"][n] = fs[tb][n]]_vars

\* This step is the _sync_file call for the source file n and the target tb.
ForwardStep(n, tb) ==
    /\ fsync.pc = "forward"
    /\ task.target_paths[fsync.ti] = tb
    /\ n \in fsync.todo
    /\ n \notin fsync'.todo

\* After the step the target holds the source's bytes and the stored hash is
\* the source's hash.
CopyRow(n, tb) ==
    /\ fs'[tb][n] = fs["S"][n]
    /\ state'[n] = get_file_hash(fs["S"][n])

\* The row of the decision table for the file n and the target tb.
DecisionTable(n, tb) ==
    LET src_hash == get_file_hash(fs["S"][n])
        target_exists == fs[tb][n] # NoFile
        src_changed == src_hash # state[n]
        tgt_changed == ~target_exists \/ get_file_hash(fs[tb][n]) # state[n]
        equal == target_exists /\ get_file_hash(fs[tb][n]) = src_hash
    IN IF ~src_changed /\ ~tgt_changed THEN fs' = fs /\ state' = state
       ELSE IF src_changed /\ ~tgt_changed THEN CopyRow(n, tb)
       ELSE IF ~src_changed
       THEN (IF task.sync_mode = "one_way" THEN CopyRow(n, tb)
             ELSE fs' = fs /\ state' = state)
       ELSE IF equal THEN fs' = fs /\ state'[n] = src_hash
       ELSE /\ CopyRow(n, tb)
            /\ target_exists =>
                  \E v \in Names : v # n /\ fs[tb][v] = NoFile
                                       /\ fs'[tb][v] = fs[tb][n]

\* C27: the hash-method forward per-file sync acts as the decision table
\* says in every row, and after every copy row the target holds the
\* source's bytes and the stored hash equals the source's hash.
C27_HashDecisionTable ==
    [][\A n \in Names, tb \in {"T1", "T2"} :
          (ForwardStep(n, tb) /\ task.compare_method = "hash")
              => DecisionTable(n, tb)]_vars

\* The source file n and the file n of every target have the hash h.
AllSidesHash(f, n, h) ==
    \A b \in Sides : f[b][n] # NoFile /\ get_file_hash(f[b][n]) = h

\* C28: when the processor writes the state record of a relative path, the
\* source file and the file at that path in every target of the task have
\* the stored hash.
C28_RecordDescribesAllSides ==
    [][\A n \in Names :
          state'[n] # state[n] => AllSidesHash(fs', n, state'[n])]_vars

\* The forward call for n and tb resolves a conflict with keep_both.
KeepBothCase(n, tb) ==
    /\ ForwardStep(n, tb)
    /\ task.compare_method = "mtime"
    /\ task.conflict_strategy = "keep_both"
    /\ check_conflict(fs["S"][n], fs[tb][n])

\* C29: keep_both renames the previous target file to the versioned name
\* with the smallest free number and copies the source over the original
\* target path: afterwards the target path holds the source's content and
\* the versioned file the old target content.
C29_KeepBothRenamesTarget ==
    [][\A n \in Names, tb \in {"T1", "T2"} :
          KeepBothCase(n, tb) =>
              LET v == generate_versioned_filename(fs, Path(tb, n)).rel
              IN /\ fs'[tb][n] = fs["S"][n]
                 /\ fs'[tb][v] = fs[tb][n]]_vars

\* The dicts l hold an operation of type ty from src to tgt.
HasOp(l, ty, src, tgt) ==
    \E j \in 1..Len(l) :
        l[j].op_type = ty /\ l[j].source = src /\ l[j].target = tgt

\* C30: the operations enqueued for a moved file event of the source watcher
\* are, for each target, the deletion of the mirror at the old relative path
\* and the copy of the file from its new path to the new relative path.
C30_MovedEventOps ==
    [][\A t \in TaskThreads :
          (Leaves(t, "gate") /\ thr'[t].pc = "adding") =>
              \A i \in 1..Len(thr[t].snap) :
                  LET item == thr[t].snap[i]
                      ev == item.event
                  IN (ev.kind = "FileEvent" /\ ev.event_type = "moved"
                        /\ ~ev.is_directory /\ ~item.is_reverse) =>
                        \A k \in 1..Len(task.target_paths) :
                            LET tb == task.target_paths[k]
                            IN /\ HasOp(thr'[t].adding, "delete",
                                        Path(tb, ev.src_path.rel), NoPath)
                               /\ HasOp(thr'[t].adding, "copy", ev.dest_path,
                                        Path(tb, ev.dest_path.rel))]_vars

\* The item is the tuple (event, True, target_base) of an event of the
\* watcher of a target: a FileEvent below the target, and the target's path.
ReverseTuple(item) ==
    /\ item.event.kind = "FileEvent"
    /\ item.target_base.kind = "str"
    /\ item.event.src_path.base = item.target_base.src_path.base
    /\ item.event.src_path.base \in TargetDirs

\* The destination of a copy, the deleted path of a delete.
WrittenPath(op) == IF op.op_type = "delete" THEN op.source ELSE op.target

\* C31: in a two_way task every event of the watcher of a target T is in the
\* batch buffer as (event, is_reverse = true, target_base = T), and a flush
\* translates it into one operation that writes the source at the same
\* relative path.
C31_TargetEventTuple ==
    /\ [](\A i \in 1..Len(file_event_batch) :
            file_event_batch[i].is_reverse => ReverseTuple(file_event_batch[i]))
    /\ [][\A t \in TimerThreads :
            (Leaves(t, "gate") /\ ~is_safety_paused /\ ~is_safety_paused') =>
                \A i \in 1..Len(thr[t].snap) :
                    thr[t].snap[i].is_reverse =>
                        \E j \in 1..Len(thr'[t].adding) :
                            /\ thr'[t].adding[j].eid = thr[t].snap[i].eid
                            /\ WrittenPath(thr'[t].adding[j])
                                  = Path("S", thr[t].snap[i].event.src_path.rel)]_vars

\* The files the directory of a directory event holds (every directory of
\* the events delivered holds DirFiles files), at least 1; 1 for a file.
ContainedFiles(evt) ==
    IF evt.is_directory THEN (IF DirFiles > 1 THEN DirFiles ELSE 1) ELSE 1

RECURSIVE ContainedTotal(_)
ContainedTotal(batch) ==
    IF batch = <<>> THEN 0
    ELSE ContainedFiles(Head(batch).event) + ContainedTotal(Tail(batch))

\* C32: the safety gate counts a directory event as the number of files the
\* directory holds, also a directory that was renamed: a flush whose events
\* stand for at least safety_threshold files trips the safety pause.
C32_DirectoryCountsFiles ==
    [][\A t \in TimerThreads :
          (/\ Leaves(t, "gate")
           /\ ~is_safety_paused
           /\ \A i \in 1..Len(thr[t].snap) : HasAttributes(thr[t].snap[i].event)
           /\ ContainedTotal(thr[t].snap) >= task.safety_threshold)
              => is_safety_paused']_vars

\* The operation i has reached a final status.
Settled(i) ==
    i <= Len(ops) /\ ops[i].status \in {"completed", "failed", "cancelled"}

\* C33: a failure of the executor is recorded as failed for that operation
\* and changes no other operation; the worker goes on with its loop; and
\* when the queue is in the end resumed for good, every operation enqueued
\* becomes completed or failed (or cancelled, when it was cleared).
C33_FailureIsLocal ==
    /\ [][(wpc = "record" /\ wpc' # "record" /\ ~wres) =>
            /\ ops'[wop].status = "failed"
            /\ \A i \in 1..Len(ops) : i # wop => ops'[i] = ops[i]]_vars
    /\ (<>[]~is_paused) =>
          /\ []<>(wpc = "check")
          /\ \A i \in 1..MaxOps : (i <= Len(ops)) ~> Settled(i)

\* An operation failed and the one executed after it was completed.
C33_Witness ==
    \E k \in 1..Len(exec_log) :
        /\ k < Len(exec_log)
        /\ ops[exec_log[k]].status = "failed"
        /\ ops[exec_log[k + 1]].status = "completed"

\* C34: the paused buffer is non-empty only while is_safety_paused is true,
\* under every interleaving of flushes with confirm_safety_alert and
\* reset_safety_pause.
C34_PausedBufferNeedsFlag ==
    paused_batch # <<>> => is_safety_paused

\* The thread t takes the buffer in this step.
TakesBuffer(t) == Leaves(t, "fired") /\ thr'[t].pc = "gate"

\* One item is appended to the buffer in this step.
AppendsItem ==
    /\ Len(file_event_batch') = Len(file_event_batch) + 1
    /\ SubSeq(file_event_batch', 1, Len(file_event_batch)) = file_event_batch

\* C35: every event appended to the batch buffer is taken by exactly one
\* flush: the buffer changes only by an append or by a flush that takes all
\* of it and leaves it empty, and a non-empty buffer has a pending timer or
\* a flush that has started and not yet taken the buffer, also when a timer
\* had fired before it was cancelled.
C35_TakenByOneFlush ==
    /\ [][\A t \in TimerThreads :
            TakesBuffer(t) =>
                (thr'[t].snap = file_event_batch /\ file_event_batch' = <<>>)]_vars
    /\ [][file_event_batch' # file_event_batch =>
            (AppendsItem \/ \E t \in TimerThreads : TakesBuffer(t))]_vars
    /\ [](file_event_batch # <<>> =>
            (batch_timer = "armed" \/ \E t \in TimerThreads : thr[t].pc = "fired"))

\* A flush whose timer had fired before a later event cancelled it has taken
\* both events, and the timer the later event started is still pending.
C35_Witness ==
    \E t \in TimerThreads :
        /\ thr[t].pc = "gate"
        /\ Len(thr[t].snap) = 2
        /\ loose_timers > 0

Planning(t) == thr[t].pc \in {"planning", "scanning", "adding", "finally"}

\* C37: a call of run_full_sync made while a previous full sync of the
\* runner has not finished planning and enqueueing returns False, and no
\* two plans are on their way to the queue at once, under every
\* interleaving of the calls with the planning threads.
C37_OneFullSyncAtATime ==
    /\ [][(\E t \in PlanThreads : Planning(t))
            => \A u \in PlanThreads : Planning(u') => Planning(u)]_vars
    /\ [](Cardinality({t \in PlanThreads : Planning(t)}) <= 1)

\* The source watchers of the runner that are running.
ActiveSourceWatchers == (IF monitors.current THEN 1 ELSE 0) + monitors.orphans

\* C38: a runner has at most one active source watcher, after any sequence
\* of start, pause, resume and stop; start() on a paused runner or one in
\* the error state leaves no earlier watcher running beside the new one.
C38_OneSourceWatcher == ActiveSourceWatchers <= 1

\* C39: when the dry run inside check_sync_safety raises, the answer is
\* safe with warning type none and zero changes, and the initial sync of
\* start() goes on to run_full_sync with the rule initial_sync_delete and
\* emits no safety alert.
C39_FailedCheckLetsSyncPass ==
    [][AutoSyncDryRunRaises =>
          /\ check_sync_safety_except.safe
          /\ check_sync_safety_except.warning_type = "none"
          /\ check_sync_safety_except.changes_count = 0
          /\ alerts' = alerts
          /\ IF is_syncing THEN thr'["plan"] = thr["plan"]
             ELSE /\ thr'["plan"].pc = "planning"
                  /\ thr'["plan"].arg.by = "auto_sync"
                  /\ thr'["plan"].arg.delete_orphans = task.initial_sync_delete
      ]_vars

\* The initial sync is being planned without an alert over a tree whose
\* sync changes as many files as the threshold or more: the check raised.
C39_Witness ==
    /\ thr["plan"].pc = "planning"
    /\ thr["plan"].arg.by = "auto_sync"
    /\ alerts = <<>>
    /\ Cardinality(PlannedChanges) >= task.safety_threshold

\* C40: add_job without a job_id returns an id that no registered job has,
\* after any sequence of add_job and remove_job: a step never changes the
\* entry of a job that stays registered, and every add_job adds a job.
C40_GeneratedIdIsFresh ==
    [][/\ \A j \in Registered(sched) \cap Registered(sched') :
             sched'.jobs[j] = sched.jobs[j]
       /\ \A t \in TaskIds :
             (\E ty \in ScheduleTypes : AddJobWithoutId(t, ty))
                => generated_job_id(t) \notin Registered(sched)
      ]_vars
====
